---- MODULE Spec2Model ----
(***************************************************************************)
(* AI-Chat-Exporter: the content-isolation and classification engine of    *)
(* converter.py (artifact stripper, code language classifier, phrase and   *)
(* full-page extraction, title normalisation).                             *)
(*                                                                         *)
(* Text is modelled by TLA+ strings over ASCII, one character per          *)
(* position; str.lower, str.strip, the substring test `in` and the         *)
(* regular expressions of the source are computed character by character.  *)
(* A parsed document is the sequence of its nodes in document order        *)
(* (pre-order), each node naming its parent; a decomposed node leaves the  *)
(* set of live nodes together with its descendants.                        *)
(***************************************************************************)
EXTENDS Integers, Sequences, FiniteSets, TLC

VARIABLES
    pc,         \* position of the invocation under study
    el,         \* get_code_language: the code element and its document context
    lang,       \* get_code_language: the outcome (returned value or raised error)
    soup,       \* the parsed document (BeautifulSoup tree), nodes in document order
    live,       \* the nodes of soup not yet decomposed
    pass1,      \* the live nodes after the first _strip_platform_artifacts
    req,        \* extract_response / extract_full_page: the arguments and the file
    result,     \* the ExtractionResult returned (or the exception raised)
    raw_title,  \* the text of the page's <title>
    content,    \* a text: rendered Markdown, or the text of a preceding element
    detected,   \* _auto_detect_tags: the list returned
    note,       \* save_to_file: the text of the destination file
    calls,      \* save_to_file: the calls made so far, in order
    question,   \* generate_smart_title: the question and the network's behaviour
    smart_title, \* generate_smart_title: the outcome
    folder      \* the export folder: the text of each file in it, by filename

\* the state of the DOM passes and of the extraction entry points
dom_vars == <<el, lang, soup, live, pass1, req, result, raw_title>>

\* the state of tagging, titling and saving
export_vars == <<content, detected, note, calls, question, smart_title, folder>>

vars == <<pc, dom_vars, export_vars>>

----------------------------------------------------------------------------
(* Strings *)

Min(a, b) == IF a < b THEN a ELSE b

Max(a, b) == IF a > b THEN a ELSE b

\* Python: s[a-1:b], positions counted from 1 and cut to the string
Slice(s, a, b) ==
    IF a > b \/ a > Len(s) \/ b < 1 THEN ""
    ELSE SubSeq(s, Max(a, 1), Min(b, Len(s)))

\* the character at position i, "" beyond the string
CharAt(s, i) == Slice(s, i, i)

\* Python: sub in s
Contains(s, sub) ==
    \E i \in 0..(Len(s) - Len(sub)) : Slice(s, i + 1, i + Len(sub)) = sub

\* Python: s.startswith(p)
StartsWith(s, p) == Len(s) >= Len(p) /\ Slice(s, 1, Len(p)) = p

\* Python: s.endswith(p)
EndsWith(s, p) == Len(s) >= Len(p) /\ Slice(s, Len(s) - Len(p) + 1, Len(s)) = p

UpperLetters == <<"A", "B", "C", "D", "E", "F", "G", "H", "I", "J", "K", "L", "M",
                  "N", "O", "P", "Q", "R", "S", "T", "U", "V", "W", "X", "Y", "Z">>

LowerLetters == <<"a", "b", "c", "d", "e", "f", "g", "h", "i", "j", "k", "l", "m",
                  "n", "o", "p", "q", "r", "s", "t", "u", "v", "w", "x", "y", "z">>

Digits == {"0", "1", "2", "3", "4", "5", "6", "7", "8", "9"}

UpperSet == {UpperLetters[k] : k \in 1..26}

LowerSet == {LowerLetters[k] : k \in 1..26}

IsUpper(c) == c \in UpperSet

IsLetter(c) == c \in UpperSet \/ c \in LowerSet

LowerChar(c) ==
    IF IsUpper(c)
    THEN LowerLetters[CHOOSE k \in 1..26 : UpperLetters[k] = c]
    ELSE c

RECURSIVE Lower(_)
\* Python: s.lower()
Lower(s) ==
    IF Len(s) <= 1 THEN LowerChar(s)
    ELSE LET half == Len(s) \div 2
         IN  Lower(Slice(s, 1, half)) \o Lower(Slice(s, half + 1, Len(s)))

\* case-insensitive comparison of two strings of the same length
SameIgnoringCase(a, b) ==
    /\ Len(a) = Len(b)
    /\ LowerChar(CharAt(a, 1)) = LowerChar(CharAt(b, 1))
    /\ Lower(a) = Lower(b)

\* regex \s
IsSpace(c) == c \in {" ", "\n", "\t"}

\* regex \w
IsWordChar(c) == IsLetter(c) \/ c \in Digits \/ c = "_"

RECURSIVE LStripSet(_, _)
\* Python: s.lstrip(chars)
LStripSet(s, chars) ==
    IF s # "" /\ CharAt(s, 1) \in chars
    THEN LStripSet(Slice(s, 2, Len(s)), chars)
    ELSE s

RECURSIVE RStripSet(_, _)
\* Python: s.rstrip(chars)
RStripSet(s, chars) ==
    IF s # "" /\ CharAt(s, Len(s)) \in chars
    THEN RStripSet(Slice(s, 1, Len(s) - 1), chars)
    ELSE s

\* Python: s.strip(chars)
StripSet(s, chars) == RStripSet(LStripSet(s, chars), chars)

\* Python: s.strip()
Strip(s) == StripSet(s, {" ", "\n", "\t"})

RECURSIVE SkipWhileSpace(_, _)
\* the first position >= p of s that holds no whitespace (Len(s) + 1 if none)
SkipWhileSpace(s, p) ==
    IF p <= Len(s) /\ IsSpace(CharAt(s, p)) THEN SkipWhileSpace(s, p + 1) ELSE p

RECURSIVE SkipWhileWord(_, _)
\* the first position >= p of s that holds no word character
SkipWhileWord(s, p) ==
    IF p <= Len(s) /\ IsWordChar(CharAt(s, p)) THEN SkipWhileWord(s, p + 1) ELSE p

\* regex \b between positions p - 1 and p of s
WordBoundary(s, p) ==
    LET before == p > 1 /\ p - 1 <= Len(s) /\ IsWordChar(CharAt(s, p - 1))
        after  == p >= 1 /\ p <= Len(s) /\ IsWordChar(CharAt(s, p))
    IN  before # after

----------------------------------------------------------------------------
(* Static tables *)

_PLATFORM_NAMES ==
    <<"Google Gemini", "Gemini", "ChatGPT", "GPT-4o", "GPT-4",
      "Claude", "Copilot", "Perplexity", "DeepSeek">>

\* label -> canonical language, in dict (insertion) order
_LABEL_MAP ==
    << <<"c++", "cpp">>, <<"cpp", "cpp">>, <<"c plus plus", "cpp">>,
       <<"python", "python">>, <<"py ", "python">>,
       <<"javascript", "javascript">>, <<"js ", "javascript">>,
       <<"js code", "javascript">>,
       <<"typescript", "typescript">>, <<"ts ", "typescript">>,
       <<"java", "java">>,
       <<"rust", "rust">>,
       <<"go ", "go">>, <<"golang", "go">>,
       <<"ruby", "ruby">>,
       <<"sql", "sql">>,
       <<"bash", "bash">>, <<"shell", "bash">>, <<"terminal", "bash">>,
       <<"html", "html">>,
       <<"css", "css">>,
       <<"c#", "csharp">>, <<"csharp", "csharp">>,
       <<"kotlin", "kotlin">>,
       <<"swift", "swift">>,
       <<"r ", "r">>, <<"r code", "r">>,
       <<"php", "php">>,
       <<"dart", "dart">> >>

\* the canonical language identifiers: the values of _LABEL_MAP
CanonicalLanguages == { _LABEL_MAP[k][2] : k \in 1..Len(_LABEL_MAP) }

----------------------------------------------------------------------------
(* Documents *)

\* el.parent is None: the element is in no tree
NoParent == 0 - 1

\* the BeautifulSoup object itself, parent of the top-level nodes
Root == 0

TextTag == "#text"

\* a Tag
Elem(tag, parent, class, role, aria, edit, author) ==
    [tag |-> tag, parent |-> parent, text |-> "", class |-> class, role |-> role,
     aria |-> aria, edit |-> edit, author |-> author]

\* a Tag without attributes other than class
Plain(tag, parent, class) == Elem(tag, parent, class, "", "", FALSE, "")

\* a NavigableString
Text(parent, s) ==
    [tag |-> TextTag, parent |-> parent, text |-> s, class |-> <<>>, role |-> "",
     aria |-> "", edit |-> FALSE, author |-> ""]

IsText(doc, i) == doc[i].tag = TextTag

IsElem(doc, i) == doc[i].tag # TextTag

RECURSIVE SubtreeEnd(_, _, _)
\* the last node of the subtree of i: in document order the descendants of i
\* follow it without a gap (j is the candidate reached so far)
SubtreeEnd(doc, i, j) ==
    IF j < Len(doc) /\ doc[j + 1].parent >= i /\ doc[j + 1].parent # NoParent
    THEN SubtreeEnd(doc, i, j + 1)
    ELSE j

\* node i and its descendants
Subtree(doc, i) == i..SubtreeEnd(doc, i, i)

Descendants(doc, i) == Subtree(doc, i) \ {i}

RECURSIVE JoinText(_, _, _, _, _)
\* the strings of the live text nodes among from..to, concatenated in document
\* order; with strip, each is stripped and the empty ones are skipped
JoinText(doc, alive, from, to, strip) ==
    IF from > to THEN ""
    ELSE LET s == IF IsText(doc, from) /\ from \in alive
                  THEN (IF strip THEN Strip(doc[from].text) ELSE doc[from].text)
                  ELSE ""
         IN  s \o JoinText(doc, alive, from + 1, to, strip)

\* Tag.get_text(strip=...)
GetText(doc, alive, i, strip) ==
    JoinText(doc, alive, i, SubtreeEnd(doc, i, i), strip)

\* Tag.decompose(): the node and everything below it leave the tree
Decompose(doc, alive, i) == alive \ Subtree(doc, i)

RECURSIVE DecomposeAll(_, _, _)
\* for el in <result list>: el.decompose()
DecomposeAll(doc, alive, nodes) ==
    IF nodes = {} THEN alive
    ELSE LET i == CHOOSE n \in nodes : TRUE
         IN  DecomposeAll(doc, Decompose(doc, alive, i), nodes \ {i})

----------------------------------------------------------------------------
(* Language detection for <code> elements: get_code_language *)

\* the value of a stage that found nothing
NoMatch == "<no match>"

\* the smallest member of a non-empty set of integers
Least(S) == CHOOSE k \in S : \A m \in S : k <= m

\* el.get("class", []) or []
ElementClasses(doc, e) == doc[e].class

\* el.parent.get("class", []) if el.parent else []
ParentClasses(doc, e) ==
    IF doc[e].parent = NoParent \/ doc[e].parent = Root THEN <<>>
    ELSE doc[doc[e].parent].class

\* cls.startswith("language-") or cls.startswith("lang-")
IsLanguageClass(cls) == StartsWith(cls, "language-") \/ StartsWith(cls, "lang-")

\* cls.split("-", 1)[1]
AfterFirstDash(cls) ==
    LET k == Least({i \in 1..Len(cls) : CharAt(cls, i) = "-"})
    IN  Slice(cls, k + 1, Len(cls))

\* 1. HTML class inspection: the first language class of el, then of its parent
ClassStage(doc, e) ==
    LET classes == ElementClasses(doc, e) \o ParentClasses(doc, e)
        hits    == {k \in 1..Len(classes) : IsLanguageClass(classes[k])}
    IN  IF hits = {} THEN NoMatch ELSE AfterFirstDash(classes[Least(hits)])

search_limit == 4

TruncateOver == 120

TruncateKeep == 60

ProximityTags == {"p", "div", "h3", "h4", "h5", "li", "span"}

RECURSIVE PreviousFrom(_, _, _, _, _)
\* walks back from node j, collecting at most limit live elements named in tags
PreviousFrom(doc, alive, j, tags, limit) ==
    IF j < 1 \/ limit = 0 THEN <<>>
    ELSE IF j \in alive /\ IsElem(doc, j) /\ doc[j].tag \in tags
         THEN <<j>> \o PreviousFrom(doc, alive, j - 1, tags, limit - 1)
         ELSE PreviousFrom(doc, alive, j - 1, tags, limit)

\* Tag.find_all_previous(tags, limit=limit): the elements that start before
\* node i, nearest first; ancestors of i are among them
FindAllPrevious(doc, alive, i, tags, limit) ==
    PreviousFrom(doc, alive, i - 1, tags, limit)

\* prev.get_text(strip=True).lower(), cut to its tail when long
ProximityText(doc, alive, j) ==
    LET text == Lower(GetText(doc, alive, j, TRUE))
    IN  IF Len(text) > TruncateOver
        THEN Slice(text, Len(text) - TruncateKeep + 1, Len(text))
        ELSE text

\* a variant without the guard that keeps "java" from matching "javascript"
LabelHits_unguarded(text) ==
    {k \in 1..Len(_LABEL_MAP) : Contains(text, _LABEL_MAP[k][1])}

\* the labels of _LABEL_MAP found in text, "java" beside "script" left out
LabelHits(text) ==
    {k \in 1..Len(_LABEL_MAP) :
        /\ Contains(text, _LABEL_MAP[k][1])
        /\ ~(_LABEL_MAP[k][1] = "java" /\ Contains(text, "script"))}

\* the inner loop over _LABEL_MAP.items()
LabelLookup(text) ==
    IF LabelHits(text) = {} THEN NoMatch ELSE _LABEL_MAP[Least(LabelHits(text))][2]

RECURSIVE FirstLabel(_, _, _, _)
\* the outer loop over the preceding elements, from position k of the list
FirstLabel(doc, alive, preceding, k) ==
    IF k > Len(preceding) THEN NoMatch
    ELSE LET found == LabelLookup(ProximityText(doc, alive, preceding[k]))
         IN  IF found # NoMatch THEN found
             ELSE FirstLabel(doc, alive, preceding, k + 1)

\* 2. Proximity search (el.parent exists)
ProximityStage(doc, alive, e) ==
    FirstLabel(doc, alive,
               FindAllPrevious(doc, alive, doc[e].parent, ProximityTags, search_limit), 1)

CTypes == {"int", "void", "double", "float", "bool", "char"}

\* re.search(r"\b(int|void|double|float|bool|char)\s+\w+\s*\(.*?\)\s*\{", code, DOTALL)
MatchesCFunction(code) ==
    \E i \in 1..Len(code), kw \in CTypes :
        /\ Slice(code, i, i + Len(kw) - 1) = kw
        /\ WordBoundary(code, i)
        /\ LET a == i + Len(kw)
               b == SkipWhileSpace(code, a)
               c == SkipWhileWord(code, b)
               d == SkipWhileSpace(code, c)
           IN  /\ b > a
               /\ c > b
               /\ d <= Len(code) /\ CharAt(code, d) = "("
               /\ \E r \in (d + 1)..Len(code) :
                     /\ CharAt(code, r) = ")"
                     /\ LET f == SkipWhileSpace(code, r + 1)
                        IN  f <= Len(code) /\ CharAt(code, f) = "{"

\* the word w stands at position i of s between two word boundaries (\bw\b)
WordAt(s, i, w) ==
    /\ Slice(s, i, i + Len(w) - 1) = w
    /\ WordBoundary(s, i)
    /\ WordBoundary(s, i + Len(w))

\* re.search(r"\bSELECT\b.*\bFROM\b", code, IGNORECASE | DOTALL)
MatchesSelectFrom(code) ==
    LET low == Lower(code)
    IN  \E i \in 1..Len(low) :
            /\ WordAt(low, i, "select")
            /\ \E j \in (i + 6)..Len(low) : WordAt(low, j, "from")

\* re.search(r"<\/?[a-z]+[^>]*>", code, IGNORECASE)
MatchesHtmlTag(code) ==
    \E i \in 1..Len(code) :
        /\ CharAt(code, i) = "<"
        /\ LET p == IF i < Len(code) /\ CharAt(code, i + 1) = "/" THEN i + 2 ELSE i + 1
           IN  /\ p <= Len(code) /\ IsLetter(CharAt(code, p))
               /\ \E r \in (p + 1)..Len(code) : CharAt(code, r) = ">"

\* 3. Syntax analysis
SyntaxStage(code) ==
    IF Contains(code, "#include") \/ Contains(code, "std::") THEN "cpp"
    ELSE IF Contains(code, "cout") /\ Contains(code, "<<") THEN "cpp"
    ELSE IF MatchesCFunction(code) THEN "cpp"
    ELSE IF Contains(code, "def ") /\ Contains(code, ":") THEN "python"
    ELSE IF Contains(code, "import ") /\ Contains(code, "from ") THEN "python"
    ELSE IF Contains(code, "fn ") /\ Contains(code, "let ") /\ Contains(code, "->")
         THEN "rust"
    ELSE IF Contains(code, "func ") /\ Contains(code, "fmt.") THEN "go"
    ELSE IF Contains(code, "interface ") /\ Contains(code, ":")
            /\ Contains(code, "export ")
         THEN "typescript"
    ELSE IF Contains(code, "console.log") \/ Contains(code, "document.")
         THEN "javascript"
    ELSE IF MatchesSelectFrom(code) THEN "sql"
    ELSE IF MatchesHtmlTag(code) THEN "html"
    ELSE ""

Returned(v) == [raised |-> "", value |-> v]

Raised(exc) == [raised |-> exc, value |-> ""]

\* get_code_language with the proximity search consulted before the class markers
get_code_language_proximity_first(doc, alive, e) ==
    LET label == IF doc[e].parent = NoParent THEN NoMatch
                 ELSE ProximityStage(doc, alive, e)
        marker == ClassStage(doc, e)
    IN  IF label # NoMatch THEN Returned(label)
        ELSE IF marker # NoMatch THEN Returned(marker)
        ELSE IF doc[e].parent = NoParent THEN Raised("AttributeError")
        ELSE Returned(SyntaxStage(GetText(doc, alive, e, FALSE)))

\* get_code_language(el), el being node e of doc; el.parent.find_all_previous
\* raises AttributeError when el.parent is None
get_code_language(doc, alive, e) ==
    LET marker == ClassStage(doc, e)
    IN  IF marker # NoMatch THEN Returned(marker)
        ELSE IF doc[e].parent = NoParent THEN Raised("AttributeError")
        ELSE LET label == ProximityStage(doc, alive, e)
             IN  IF label # NoMatch THEN Returned(label)
                 ELSE Returned(SyntaxStage(GetText(doc, alive, e, FALSE)))

----------------------------------------------------------------------------
(* Platform artifact cleanup: _strip_platform_artifacts *)

\* a or a-b or a_b somewhere in s: the regex a[-_]?b
ContainsJoined(s, a, b) ==
    Contains(s, a \o b) \/ Contains(s, a \o "-" \o b) \/ Contains(s, a \o "_" \o b)

\* the regex side.nav: any character but a newline between the two words
ContainsSideAnyNav(s) ==
    \E i \in 1..Len(s) :
        /\ Slice(s, i, i + 3) = "side"
        /\ CharAt(s, i + 4) \notin {"", "\n"}
        /\ Slice(s, i + 5, i + 7) = "nav"

\* _SIDEBAR_CLASS_RE.search(s)
_SIDEBAR_CLASS_RE(s) ==
    LET low == Lower(s)
    IN  \/ Contains(low, "sidebar") \/ Contains(low, "side-bar")
        \/ Contains(low, "sidenav") \/ ContainsSideAnyNav(low)
        \/ Contains(low, "drawer")
        \/ ContainsJoined(low, "nav", "rail")
        \/ ContainsJoined(low, "chat", "list")
        \/ ContainsJoined(low, "conversation", "list")
        \/ ContainsJoined(low, "history", "panel")
        \/ ContainsJoined(low, "left", "panel")
        \/ ContainsJoined(low, "left", "nav")
        \/ ContainsJoined(low, "menu", "panel")
        \/ ContainsJoined(low, "threads", "list")
        \/ ContainsJoined(low, "thread", "list")

\* _SIDEBAR_ARIA_RE.search(s)
_SIDEBAR_ARIA_RE(s) ==
    LET low == Lower(s)
    IN  \/ Contains(low, "conversation") \/ Contains(low, "recent chat")
        \/ Contains(low, "chat history") \/ Contains(low, "sidebar")
        \/ Contains(low, "navigation") \/ Contains(low, "threads")
        \/ Contains(low, "previous chat") \/ Contains(low, "menu")

\* _OVERLAY_CLASS_RE.search(s)
_OVERLAY_CLASS_RE(s) ==
    LET low == Lower(s)
    IN  \/ Contains(low, "tooltip") \/ Contains(low, "popover")
        \/ Contains(low, "modal") \/ Contains(low, "overlay")
        \/ Contains(low, "backdrop") \/ Contains(low, "snackbar")

RECURSIVE JoinClasses(_)
\* " ".join(classes)
JoinClasses(classes) ==
    IF classes = <<>> THEN ""
    ELSE IF Len(classes) = 1 THEN classes[1]
    ELSE classes[1] \o " " \o JoinClasses(Tail(classes))

\* find_all(class_=regex): the regex is searched in each class of the element
\* and, failing that, in the whole class attribute
ClassMatches(Re(_), classes) ==
    /\ classes # <<>>
    /\ \/ \E k \in 1..Len(classes) : Re(classes[k])
       \/ Re(JoinClasses(classes))

\* soup.find_all(...): the live elements that satisfy Match
FindAll(doc, alive, Match(_)) == {i \in alive : IsElem(doc, i) /\ Match(doc[i])}

\* for el in soup.find_all(...): el.decompose()
StripAll(doc, alive, Match(_)) == DecomposeAll(doc, alive, FindAll(doc, alive, Match))

\* stands for the decorative glyph U+2728 of the source
Sparkles == "*"

BrandParentTags ==
    {"h1", "h2", "h3", "h4", "h5", "h6", "span", "div", "a", "p", "label"}

\* re.compile(rf"^\s*{re.escape(name)}\s*$", re.IGNORECASE) matches text
IsJustName(text, name) == SameIgnoringCase(StripSet(text, {" ", "\n", "\t"}), name)

\* the body of the loop over the text nodes found for one platform name: node t
\* takes its parent out of the tree when the parent holds nothing but the name
StripBrandParent(doc, alive, t, name) ==
    LET parent == doc[t].parent
    IN  IF t \notin alive \/ parent = NoParent \/ parent = Root THEN alive
        ELSE IF doc[parent].tag \notin BrandParentTags THEN alive
        ELSE LET parent_text == Lower(GetText(doc, alive, parent, TRUE))
             IN  IF parent_text \in {Lower(name), Sparkles \o " " \o Lower(name)}
                 THEN Decompose(doc, alive, parent)
                 ELSE alive

RECURSIVE StripBrandNodes(_, _, _, _)
\* the loop over the text nodes found for one name, in document order
StripBrandNodes(doc, alive, nodes, name) ==
    IF nodes = {} THEN alive
    ELSE LET t == Least(nodes)
         IN  StripBrandNodes(doc, StripBrandParent(doc, alive, t, name),
                             nodes \ {t}, name)

RECURSIVE StripBrandNames(_, _, _)
\* the loop over _PLATFORM_NAMES, from name k on; the text nodes of a name are
\* found before any of them is handled
StripBrandNames(doc, alive, k) ==
    IF k > Len(_PLATFORM_NAMES) THEN alive
    ELSE LET name  == _PLATFORM_NAMES[k]
             found == {t \in alive : IsText(doc, t) /\ IsJustName(doc[t].text, name)}
         IN  StripBrandNames(doc, StripBrandNodes(doc, alive, found, name), k + 1)

\* _strip_platform_artifacts(soup): the live nodes it leaves
_strip_platform_artifacts(doc, alive) ==
    LET \* 1. sidebar and navigation panels
        a1 == StripAll(doc, alive, LAMBDA n : n.tag = "aside")
        a2 == StripAll(doc, a1, LAMBDA n : n.role = "complementary")
        a3 == StripAll(doc, a2, LAMBDA n : n.role = "navigation")
        a4 == StripAll(doc, a3, LAMBDA n : ClassMatches(_SIDEBAR_CLASS_RE, n.class))
        a5 == StripAll(doc, a4, LAMBDA n : n.aria # "" /\ _SIDEBAR_ARIA_RE(n.aria))
        \* 2. platform branding
        b1 == StripAll(doc, a5, LAMBDA n : n.tag = "title")
        b2 == StripBrandNames(doc, b1, 1)
        \* 3. input and prompt areas
        c1 == StripAll(doc, b2, LAMBDA n : n.edit)
        c2 == StripAll(doc, c1, LAMBDA n : n.tag \in {"textarea", "input"})
        \* 4. modals, tooltips, overlays
        d1 == StripAll(doc, c2, LAMBDA n : n.role = "dialog")
        d2 == StripAll(doc, d1, LAMBDA n : n.role = "tooltip")
        d3 == StripAll(doc, d2, LAMBDA n : n.role = "alertdialog")
        d4 == StripAll(doc, d3, LAMBDA n : ClassMatches(_OVERLAY_CLASS_RE, n.class))
    IN  d4

----------------------------------------------------------------------------
(* The code elements get_code_language is applied to *)

\* the number of text blocks that precede the code block
MaxBlocks == 2

LongProse ==
    "C++ was the choice of the old team - and it is gone: "
    \o "we now keep each of them in one file and document each of them in "
    \o "one page and we check it daily"

\* the blocks that may precede a code block: a tag and its text
BlockKinds ==
    {[tag |-> "p",  text |-> "Here's some C++ code:"],
     [tag |-> "p",  text |-> " Here is the JavaScript version "],
     [tag |-> "p",  text |-> "No code at all"],
     [tag |-> "h2", text |-> "Python solution"],
     [tag |-> "li", text |-> "In Java:"],
     [tag |-> "div", text |-> LongProse]}

RECURSIVE SeqsUpTo(_, _)
\* the sequences over S of length at most n
SeqsUpTo(S, n) ==
    IF n = 0 THEN {<<>>}
    ELSE SeqsUpTo(S, n - 1)
         \cup {Append(q, x) : q \in {r \in SeqsUpTo(S, n - 1) : Len(r) = n - 1}, x \in S}

ElementClassLists ==
    {<<>>, <<"language-python">>, <<"hljs", "lang-js">>, <<"language-c++">>,
     <<"code-block">>}

ParentClassLists == {<<>>, <<"lang-rust", "language-go">>}

CodeTexts ==
    {"", "std::sort(v)", "int main() { }", "def f(): pass",
     "fn f() -> u8 { let x = 1; }", "func main() { fmt.Println(1) }",
     "export interface A { x: number }", "console.log(1)",
     "select a\nFROM t", "<b>x</b>"}

\* the string child of a code element: the parser makes no empty string
CodeText(parent, code) == IF code = "" THEN <<>> ELSE <<Text(parent, code)>>

RECURSIVE BlockNodes(_, _, _)
\* the nodes of the blocks, children of node parent, the first of them at
\* position first of the document: each block is an element holding one string
BlockNodes(blocks, parent, first) ==
    IF blocks = <<>> THEN <<>>
    ELSE <<Plain(blocks[1].tag, parent, <<>>), Text(first, blocks[1].text)>>
         \o BlockNodes(Tail(blocks), parent, first + 2)

\* <code class=...>code</code>, in no tree
DetachedCode(classes, code) ==
    [doc |-> <<Plain("code", NoParent, classes)>> \o CodeText(1, code), node |-> 1]

\* blocks... <pre class=...>code</pre>, all at the top of the document
TopLevelPre(blocks, classes, code) ==
    LET n == 2 * Len(blocks)
    IN  [doc  |-> BlockNodes(blocks, Root, 1)
                  \o <<Plain("pre", Root, classes)>> \o CodeText(n + 1, code),
         node |-> n + 1]

\* <div class=...> blocks... <pre class=...>code</pre> </div>
SiblingPre(blocks, parent_classes, classes, code) ==
    LET n == 2 * Len(blocks)
    IN  [doc  |-> <<Plain("div", Root, parent_classes)>>
                  \o BlockNodes(blocks, 1, 2)
                  \o <<Plain("pre", 1, classes)>> \o CodeText(n + 2, code),
         node |-> n + 2]

\* blocks... <pre class=...><code class=...>code</code></pre>
WrappedCode(blocks, parent_classes, classes, code) ==
    LET n == 2 * Len(blocks)
    IN  [doc  |-> BlockNodes(blocks, Root, 1)
                  \o <<Plain("pre", Root, parent_classes),
                       Plain("code", n + 1, classes)>> \o CodeText(n + 2, code),
         node |-> n + 2]

\* <div> blocks... <pre class=...><code class=...>code</code></pre> </div>
NestedCode(blocks, parent_classes, classes, code) ==
    LET n == 2 * Len(blocks)
    IN  [doc  |-> <<Plain("div", Root, <<>>)>>
                  \o BlockNodes(blocks, 1, 2)
                  \o <<Plain("pre", 1, parent_classes),
                       Plain("code", n + 2, classes)>> \o CodeText(n + 3, code),
         node |-> n + 3]

BlockLists == SeqsUpTo(BlockKinds, MaxBlocks)

Shapes == {"detached", "top", "sibling", "wrapped", "nested"}

\* the code element of the given shape
CodeElement(shape, blocks, parent_classes, classes, code) ==
    CASE shape = "detached" -> DetachedCode(classes, code)
      [] shape = "top"      -> TopLevelPre(blocks, classes, code)
      [] shape = "sibling"  -> SiblingPre(blocks, parent_classes, classes, code)
      [] shape = "wrapped"  -> WrappedCode(blocks, parent_classes, classes, code)
      [] shape = "nested"   -> NestedCode(blocks, parent_classes, classes, code)

AllNodes(doc) == 1..Len(doc)

NoElement == [doc |-> <<>>, node |-> 0]

NoOutcome == [raised |-> "", value |-> NoMatch]

NoRequest == [mode |-> "", file |-> "", phrase |-> "", strip_buttons |-> FALSE]

NoResult == [raised |-> "", success |-> FALSE, message |-> "", title |-> "",
             node |-> 0 - 1]

\* full_path.exists() is false
Absent == "<absent>"

NoQuestion ==
    [text |-> "", smart_titles |-> FALSE, ai_enabled |-> FALSE, api_key |-> "",
     max_length |-> 0, network |-> [raises |-> "", content |-> ""]]

\* the export folder holds no file
NoFiles == <<>>

\* nothing is being tagged, titled or saved
NoExport ==
    /\ content = "" /\ detected = <<>> /\ note = Absent /\ calls = <<>>
    /\ question = NoQuestion /\ smart_title = NoOutcome /\ folder = NoFiles

\* no document is being processed
NoDom ==
    /\ el = NoElement /\ lang = NoOutcome
    /\ soup = <<>> /\ live = {} /\ pass1 = {}
    /\ req = NoRequest /\ result = NoResult /\ raw_title = ""

\* one call of get_code_language on a code element of some document
InitLang ==
    /\ NoExport
    /\ pc = "code_element"
    /\ \E shape \in Shapes, blocks \in BlockLists, parent_classes \in ParentClassLists,
          classes \in ElementClassLists, code \in CodeTexts :
            /\ shape = "detached" => blocks = <<>>
            /\ shape \in {"detached", "top"} => parent_classes = <<>>
            /\ el = CodeElement(shape, blocks, parent_classes, classes, code)
    /\ lang = NoOutcome
    /\ soup = <<>> /\ live = {} /\ pass1 = {}
    /\ req = NoRequest /\ result = NoResult /\ raw_title = ""

Classify ==
    /\ pc = "code_element"
    /\ lang' = get_code_language(el.doc, AllNodes(el.doc), el.node)
    /\ pc' = "classified"
    /\ UNCHANGED <<el, soup, live, pass1, req, result, raw_title>>
    /\ UNCHANGED export_vars

NextLang == Classify

SpecLang == InitLang /\ [][NextLang]_vars

----------------------------------------------------------------------------
(* Properties of get_code_language *)

\* the classes inspected for a language marker: the element's, then its parent's
InspectedClasses == ElementClasses(el.doc, el.node) \o ParentClasses(el.doc, el.node)

\* the element and its parent carry no language marker
Unlabeled == \A k \in 1..Len(InspectedClasses) : ~IsLanguageClass(InspectedClasses[k])

\* the code block of the element: its <pre> when it is the <code> of one
CodeBlockOf(doc, e) ==
    IF doc[e].parent > Root /\ doc[doc[e].parent].tag = "pre" THEN doc[e].parent ELSE e

\* the element that immediately precedes node i among the children of its
\* parent (0 if there is none)
PreviousSibling(doc, i) ==
    LET before == {j \in 1..(i - 1) : IsElem(doc, j) /\ doc[j].parent = doc[i].parent}
    IN  IF before = {} THEN 0 ELSE CHOOSE j \in before : \A m \in before : m <= j

\* the language named by the paragraph that immediately precedes the code
\* block (NoMatch if no paragraph precedes it or it names none)
NamedByPrecedingParagraph ==
    LET block == CodeBlockOf(el.doc, el.node)
        prev  == PreviousSibling(el.doc, block)
    IN  IF el.doc[el.node].parent # NoParent /\ prev # 0 /\ el.doc[prev].tag = "p"
        THEN LabelLookup(ProximityText(el.doc, AllNodes(el.doc), prev))
        ELSE NoMatch

\* C2: when a paragraph naming a language alias immediately precedes an
\* unlabeled code block, get_code_language returns that alias's canonical
\* language, whatever the code text is.
C2_ProximityOutranksSyntax ==
    (pc = "classified" /\ Unlabeled /\ NamedByPrecedingParagraph # NoMatch)
        => lang = Returned(NamedByPrecedingParagraph)

\* C3: whenever the code element or its immediate parent carries a class
\* beginning with "language-" or "lang-", get_code_language returns the suffix
\* after the first separator of the first such class, whatever the preceding
\* text and the code text are.
C3_ClassMarkerOutranksAll ==
    pc = "classified" =>
        \A k \in 1..Len(InspectedClasses) :
            (/\ IsLanguageClass(InspectedClasses[k])
             /\ \A m \in 1..(k - 1) : ~IsLanguageClass(InspectedClasses[m]))
            => /\ lang.raised = ""
               /\ InspectedClasses[k] \in {"language-" \o lang.value, "lang-" \o lang.value}

\* C3 witness: a marked element was classified by its marker although the text
\* before it names another language and its code shows the syntax of a third.
C3_Witness ==
    /\ pc = "classified"
    /\ ~Unlabeled
    /\ el.doc[el.node].parent # NoParent
    /\ ProximityStage(el.doc, AllNodes(el.doc), el.node) \notin {NoMatch, lang.value}
    /\ SyntaxStage(GetText(el.doc, AllNodes(el.doc), el.node, FALSE))
          \notin {"", lang.value,
                  ProximityStage(el.doc, AllNodes(el.doc), el.node)}

\* C4: every value returned by get_code_language is either empty or a
\* canonical language identifier, never a raw alias or marker suffix.
C4_ReturnsCanonical ==
    (pc = "classified" /\ lang.raised = "")
        => lang.value \in CanonicalLanguages \cup {""}

\* C5: get_code_language never fails: for every code element and document
\* context it returns a value and raises no error.
C5_NeverRaises == pc = "classified" => lang.raised = ""

----------------------------------------------------------------------------
(* Parsed documents *)

\* the number of fragments of a document
MaxNodes == 3

RECURSIVE OnOpenPath(_, _, _)
\* a is fragment j or one of its ancestors (the document itself included)
OnOpenPath(parents, j, a) ==
    \/ a = Root
    \/ a = j
    \/ j > Root /\ OnOpenPath(parents, parents[j], a)

\* the parent of each of n fragments listed in document order: a fragment
\* hangs below the one before it or below one of that fragment's ancestors
ParentVectors(n) ==
    {parents \in [1..n -> 0..(n - 1)] :
        \A i \in 1..n :
            /\ parents[i] < i
            /\ i > 1 => OnOpenPath(parents, i - 1, parents[i])}

\* a fragment of markup: a string, an element, or an element holding one string
JustText(s) == <<Text(Root, s)>>

Empty(element) == <<element>>

Holding(element, s) == <<element, Text(Root, s)>>

IsTextFragment(f) == f[1].tag = TextTag

\* further fragments may hang below an element that is still empty
IsContainer(f) == Len(f) = 1 /\ f[1].tag \notin {TextTag, "input", "img"}

\* the parser's trees: only elements have children, and two strings never
\* follow each other (the parser joins adjacent text)
WellFormed(frags, parents) ==
    /\ \A i \in DOMAIN frags : parents[i] # Root => IsContainer(frags[parents[i]])
    /\ \A i \in DOMAIN frags :
          (i > 1 /\ IsTextFragment(frags[i]) /\ IsTextFragment(frags[i - 1]))
              => parents[i] # parents[i - 1]

RECURSIVE NodesBefore(_, _)
\* the number of nodes of the fragments before fragment i
NodesBefore(frags, i) ==
    IF i <= 1 THEN 0 ELSE NodesBefore(frags, i - 1) + Len(frags[i - 1])

\* the nodes of fragment i in the document: its element (or string) below the
\* element of its parent fragment, and the string it holds below itself
FragmentNodes(frags, parents, i) ==
    LET at    == NodesBefore(frags, i) + 1
        above == IF parents[i] = Root THEN Root
                 ELSE NodesBefore(frags, parents[i]) + 1
    IN  <<[frags[i][1] EXCEPT !.parent = above]>>
        \o (IF Len(frags[i]) = 2 THEN <<[frags[i][2] EXCEPT !.parent = at]>> ELSE <<>>)

RECURSIVE DocumentFrom(_, _, _)
\* the document of the fragments i, i + 1, ... in document order
DocumentFrom(frags, parents, i) ==
    IF i > Len(frags) THEN <<>>
    ELSE FragmentNodes(frags, parents, i) \o DocumentFrom(frags, parents, i + 1)

\* soup = BeautifulSoup(raw_html, "html.parser"), over the fragments given
Parsed(doc, Fragments) ==
    \E n \in 0..MaxNodes :
        \E parents \in ParentVectors(n), frags \in [1..n -> Fragments] :
            /\ WellFormed(frags, parents)
            /\ doc = DocumentFrom(frags, parents, 1)

----------------------------------------------------------------------------
(* _strip_platform_artifacts applied once, and once more *)

StripFragments ==
    {JustText(" gemini\n"),
     JustText("Ask ChatGPT"),
     Empty(Plain("div", Root, <<>>)),
     Holding(Plain("span", Root, <<>>), "ChatGPT"),
     Holding(Plain("textarea", Root, <<>>), "Ask ChatGPT"),
     Holding(Plain("div", Root, <<"msg", "Tooltip-box">>), "Copy"),
     Holding(Plain("aside", Root, <<>>), "Older chat"),
     Holding(Plain("title", Root, <<>>), "ChatGPT")}

InitStrip ==
    /\ NoExport
    /\ pc = "parsed"
    /\ Parsed(soup, StripFragments)
    /\ live = AllNodes(soup)
    /\ pass1 = {}
    /\ el = NoElement /\ lang = NoOutcome
    /\ req = NoRequest /\ result = NoResult /\ raw_title = ""

\* the first application
StripArtifacts ==
    /\ pc = "parsed"
    /\ live' = _strip_platform_artifacts(soup, live)
    /\ pass1' = live'
    /\ pc' = "stripped"
    /\ UNCHANGED <<el, lang, soup, req, result, raw_title>>
    /\ UNCHANGED export_vars

\* a second application, to the tree the first one left
StripArtifactsAgain ==
    /\ pc = "stripped"
    /\ live' = _strip_platform_artifacts(soup, live)
    /\ pc' = "stripped_twice"
    /\ UNCHANGED <<el, lang, soup, pass1, req, result, raw_title>>
    /\ UNCHANGED export_vars

NextStrip == StripArtifacts \/ StripArtifactsAgain

SpecStrip == InitStrip /\ [][NextStrip]_vars

\* C1: applying _strip_platform_artifacts twice yields exactly the tree that
\* applying it once yields: the second application removes no element.
C1_StripIdempotent == pc = "stripped_twice" => live = pass1

----------------------------------------------------------------------------
(* User-message simplification: _simplify_user_messages *)

\* _USER_MSG_CLASS_RE.search(s)
_USER_MSG_CLASS_RE(s) ==
    LET low == Lower(s)
    IN  \/ ContainsJoined(low, "user", "message")
        \/ ContainsJoined(low, "human", "message")
        \/ ContainsJoined(low, "query", "message")
        \/ ContainsJoined(low, "user", "turn")
        \/ ContainsJoined(low, "human", "turn")
        \/ ContainsJoined(low, "request", "row")
        \/ ContainsJoined(low, "user", "row")
        \/ ContainsJoined(low, "prompt", "row")

\* the attribute/value pairs that mark a turn as the user's
UserAuthorMarks ==
    {"data-message-author-role=user", "data-turn-role=human", "data-role=user"}

\* a variant that finds the user containers by attribute only
UserContainers_by_attribute(doc, alive) ==
    FindAll(doc, alive, LAMBDA n : n.author \in UserAuthorMarks)

\* the user containers: found by attribute or by class, each taken once
UserContainers(doc, alive) ==
    FindAll(doc, alive, LAMBDA n : n.author \in UserAuthorMarks)
    \cup FindAll(doc, alive, LAMBDA n : ClassMatches(_USER_MSG_CLASS_RE, n.class))

RECURSIVE StripPreBlocks(_, _, _)
\* the loop over the user containers, in the order they were found: each loses
\* the <pre> elements below it
StripPreBlocks(doc, alive, containers) ==
    IF containers = {} THEN alive
    ELSE LET c    == Least(containers)
             pres == {i \in Descendants(doc, c) \cap alive : doc[i].tag = "pre"}
         IN  StripPreBlocks(doc, DecomposeAll(doc, alive, pres), containers \ {c})

\* a variant that drops every <pre>, whoever wrote the turn
_simplify_user_messages_every_pre(doc, alive) ==
    DecomposeAll(doc, alive, {i \in alive : doc[i].tag = "pre"})

\* _simplify_user_messages(soup): the live nodes it leaves
_simplify_user_messages(doc, alive) ==
    StripPreBlocks(doc, alive, UserContainers(doc, alive))

----------------------------------------------------------------------------
(* Title normalisation: phase 0 of extract_full_page *)

\* chat_title is None
None == "<None>"

\* the separators [-|] of the patterns (the en dash and the em dash of the
\* source lie outside the ASCII alphabet of the model)
Separators == {"-", "|"}

Whitespace == {" ", "\n", "\t"}

\* re.sub(r"(?i)^conversation\s+with\s+", "", s)
StripConversationWith(s) ==
    LET a == SkipWhileSpace(s, 13)
        b == SkipWhileSpace(s, a + 4)
    IN  IF /\ SameIgnoringCase(Slice(s, 1, 12), "conversation")
           /\ a > 13
           /\ SameIgnoringCase(Slice(s, a, a + 3), "with")
           /\ b > a + 4
        THEN Slice(s, b, Len(s))
        ELSE s

\* re.sub(rf"(?i)\s*[-|]\s*{re.escape(name)}\s*$", "", s)
StripTrailingBrand(s, name) ==
    LET t == RStripSet(s, Whitespace)
        u == RStripSet(Slice(t, 1, Len(t) - Len(name)), Whitespace)
    IN  IF /\ SameIgnoringCase(Slice(t, Len(t) - Len(name) + 1, Len(t)), name)
           /\ u # ""
           /\ CharAt(u, Len(u)) \in Separators
        THEN RStripSet(Slice(u, 1, Len(u) - 1), Whitespace)
        ELSE s

\* re.sub(rf"(?i)^{re.escape(name)}\s*[-|]\s*", "", s)
StripLeadingBrand(s, name) ==
    LET r == LStripSet(Slice(s, Len(name) + 1, Len(s)), Whitespace)
    IN  IF /\ SameIgnoringCase(Slice(s, 1, Len(name)), name)
           /\ r # ""
           /\ CharAt(r, 1) \in Separators
        THEN LStripSet(Slice(r, 2, Len(r)), Whitespace)
        ELSE s

RECURSIVE StripBrands(_, _)
\* the loop over _PLATFORM_NAMES up to name k: for each name in turn the
\* trailing segment of the name is removed, then the leading one
StripBrands(s, k) ==
    IF k = 0 THEN s
    ELSE LET before == StripBrands(s, k - 1)
             name   == _PLATFORM_NAMES[k]
         IN  IF Len(before) <= Len(name)
             THEN before  \* neither pattern matches: each needs a separator too
             ELSE StripLeadingBrand(StripTrailingBrand(before, name), name)

\* the title kept for raw_title, the text of the page's <title>
CleanTitle(raw) ==
    LET cleaned == StripSet(StripBrands(StripConversationWith(raw), Len(_PLATFORM_NAMES)),
                            {" "} \cup Separators)
    IN  IF cleaned # "" THEN cleaned ELSE None

----------------------------------------------------------------------------
(* Core extraction: extract_response and extract_full_page *)

Failure(message) ==
    [raised |-> "", success |-> FALSE, message |-> message, title |-> None, node |-> 0]

Success(message, title, node) ==
    [raised |-> "", success |-> TRUE, message |-> message, title |-> title,
     node |-> node]

\* an exception leaves the entry point
Escaped(exc) ==
    [raised |-> exc, success |-> FALSE, message |-> "", title |-> None, node |-> 0]

FileNotFound == "File not found."

\* the message of the source has an em dash where the model has a hyphen
EncodingError == "Failed to read file - encoding issue."

PhraseNotFound == "Phrase not found in the document."

ContainerAmbiguous == "Could not determine message container."

ResponseNotIsolated == "Found question, but couldn't isolate the AI answer."

\* LoadOutcome without the handler of UnicodeDecodeError
LoadOutcome_decode_unhandled(file) ==
    CASE file = "missing"     -> Failure(FileNotFound)
      [] file = "undecodable" -> Escaped("UnicodeDecodeError")
      [] file = "locked"      -> Escaped("PermissionError")
      [] OTHER                -> NoResult

\* path.exists() and _load_html(path): the outcome that ends the call before
\* the document is parsed (NoResult if it is read)
LoadOutcome(file) ==
    CASE file = "missing"     -> Failure(FileNotFound)
      [] file = "undecodable" -> Failure(EncodingError)
      [] file = "locked"      -> Escaped("PermissionError")
      [] OTHER                -> NoResult

\* soup.find(string=lambda text: text and search_phrase.lower() in text.lower())
\* (0 if there is none)
FindPhrase(doc, alive, phrase) ==
    LET hits == {i \in alive : /\ IsText(doc, i)
                               /\ doc[i].text # ""
                               /\ Contains(Lower(doc[i].text), Lower(phrase))}
    IN  IF hits = {} THEN 0 ELSE Least(hits)

ContainerTags == {"div", "li", "article", "section"}

RECURSIVE WalkUp(_, _)
\* while container and container.name not in {...}: container = container.parent
\* (0 when the walk leaves the document: container is None)
WalkUp(doc, i) ==
    IF i = Root \/ i = NoParent THEN 0
    ELSE IF doc[i].tag \in ContainerTags THEN i
    ELSE WalkUp(doc, doc[i].parent)

\* the markup of the subtree of node i, as Tag.__eq__ compares it: names,
\* attributes and contents, wherever the subtree stands
Markup(doc, alive, i) ==
    LET nodes == Subtree(doc, i) \cap alive
    IN  {[at   |-> j - i,
          node |-> [doc[j] EXCEPT !.parent = IF j = i THEN 0 ELSE doc[j].parent - i]]
            : j \in nodes}

\* sibling == container
SameMarkup(doc, alive, i, j) == Markup(doc, alive, i) = Markup(doc, alive, j)

MinAnswerLength == 20

\* the loop over container.find_all_next("div"): the first div that starts after
\* the container, is not equal to it and has enough text (0 if there is none)
FindAnswer(doc, alive, container) ==
    LET found == {j \in alive :
                    /\ j > container
                    /\ IsElem(doc, j) /\ doc[j].tag = "div"
                    /\ ~SameMarkup(doc, alive, j, container)
                    /\ Len(GetText(doc, alive, j, TRUE)) > MinAnswerLength}
    IN  IF found = {} THEN 0 ELSE Least(found)

\* removable[:6]
RemovableTags == {"button", "svg", "img", "nav", "footer", "script"}

\* for tag in ai_node(removable[:6]): tag.decompose()
CleanAnswer(doc, alive, ai_node) ==
    DecomposeAll(doc, alive,
                 {i \in Descendants(doc, ai_node) \cap alive : doc[i].tag \in RemovableTags})

\* extract_response(file_path, search_phrase, config): the result and the tree
extract_response(r, doc, alive) ==
    LET user_node == FindPhrase(doc, alive, r.phrase)
        container == WalkUp(doc, doc[user_node].parent)
        ai_node   == FindAnswer(doc, alive, container)
    IN  IF LoadOutcome(r.file) # NoResult
        THEN [result |-> LoadOutcome(r.file), live |-> alive]
        ELSE IF user_node = 0
        THEN [result |-> Failure(PhraseNotFound), live |-> alive]
        ELSE IF container = 0
        THEN [result |-> Failure(ContainerAmbiguous), live |-> alive]
        ELSE IF ai_node = 0
        THEN [result |-> Failure(ResponseNotIsolated), live |-> alive]
        ELSE [result |-> Success("Extraction successful.", None, ai_node),
              live   |-> CleanAnswer(doc, alive, ai_node)]

\* the first live element that satisfies Match (0 if there is none): soup.find
Find(doc, alive, Match(_)) ==
    IF FindAll(doc, alive, Match) = {} THEN 0 ELSE Least(FindAll(doc, alive, Match))

\* phase 0 of extract_full_page: the conversation title, taken before cleanup
ChatTitle(doc, alive) ==
    LET title_tag == Find(doc, alive, LAMBDA n : n.tag = "title")
    IN  IF title_tag = 0 THEN None
        ELSE CleanTitle(GetText(doc, alive, title_tag, TRUE))

PageRemovableTags == {"button", "svg", "nav", "footer", "script", "style", "header"}

\* soup.select("div[class*='toolbar'], a[class*='copy']")
IsToolbarOrCopy(n) ==
    \/ n.tag = "div" /\ Contains(JoinClasses(n.class), "toolbar")
    \/ n.tag = "a" /\ Contains(JoinClasses(n.class), "copy")

\* phase 1 of extract_full_page: basic tag cleanup
BasicCleanup(doc, alive, strip_buttons) ==
    LET a1 == StripAll(doc, alive, LAMBDA n : n.tag \in PageRemovableTags)
    IN  IF strip_buttons THEN StripAll(doc, a1, IsToolbarOrCopy) ELSE a1

\* phase 4 of extract_full_page: the main content (Root is the whole document)
MainContent(doc, alive) ==
    LET main    == Find(doc, alive, LAMBDA n : n.tag = "main")
        rolediv == Find(doc, alive, LAMBDA n : n.tag = "div" /\ n.role = "main")
        article == Find(doc, alive, LAMBDA n : n.tag = "article")
        body    == Find(doc, alive, LAMBDA n : n.tag = "body")
    IN  IF main # 0 THEN main
        ELSE IF rolediv # 0 THEN rolediv
        ELSE IF article # 0 THEN article
        ELSE IF body # 0 THEN body
        ELSE Root

\* extract_full_page(file_path, config): the result and the tree
extract_full_page(r, doc, alive) ==
    LET chat_title == ChatTitle(doc, alive)
        cleaned    == BasicCleanup(doc, alive, r.strip_buttons)
        stripped   == _strip_platform_artifacts(doc, cleaned)
        simplified == _simplify_user_messages(doc, stripped)
    IN  IF LoadOutcome(r.file) # NoResult
        THEN [result |-> LoadOutcome(r.file), live |-> alive]
        ELSE [result |-> Success("Full-page export successful.", chat_title,
                                 MainContent(doc, simplified)),
              live   |-> simplified]

----------------------------------------------------------------------------
(* Title normalisation applied to page titles *)

\* the number of dash/pipe-separated segments of a page title
MaxSegments == 3

TitleWords == {"Merge Sort Explanation", "ChatGPT", "gemini", "Google Gemini", "GPT-4o"}

TitleJoins == {" - ", "|"}

TitlePrefixes == {"", "Conversation with ", "conversation  WITH\t"}

RECURSIVE TitlesOf(_)
\* the titles of exactly n segments
TitlesOf(n) ==
    IF n = 1 THEN TitleWords
    ELSE {t \o j \o w : t \in TitlesOf(n - 1), j \in TitleJoins, w \in TitleWords}

InitTitle ==
    /\ NoExport
    /\ pc = "title_tag"
    /\ \E n \in 1..MaxSegments, prefix \in TitlePrefixes :
          \E t \in TitlesOf(n) : raw_title = prefix \o t
    /\ result = NoResult
    /\ el = NoElement /\ lang = NoOutcome
    /\ soup = <<>> /\ live = {} /\ pass1 = {}
    /\ req = NoRequest

\* phase 0 of extract_full_page on the text of the <title> element
ExtractTitle ==
    /\ pc = "title_tag"
    /\ result' = Success("", CleanTitle(raw_title), 0)
    /\ pc' = "titled"
    /\ UNCHANGED <<el, lang, soup, live, pass1, req, raw_title>>
    /\ UNCHANGED export_vars

NextTitle == ExtractTitle

SpecTitle == InitTitle /\ [][NextTitle]_vars

\* s ends with a brand segment: a dash or pipe, then a platform name
EndsWithBrandSegment(s) ==
    \E k \in 1..Len(_PLATFORM_NAMES) :
        /\ EndsWith(Lower(s), Lower(_PLATFORM_NAMES[k]))
        /\ LET rest == RStripSet(Slice(s, 1, Len(s) - Len(_PLATFORM_NAMES[k])), Whitespace)
           IN  rest # "" /\ CharAt(rest, Len(rest)) \in Separators

\* s begins with a brand segment: a platform name, then a dash or pipe
StartsWithBrandSegment(s) ==
    \E k \in 1..Len(_PLATFORM_NAMES) :
        /\ StartsWith(Lower(s), Lower(_PLATFORM_NAMES[k]))
        /\ LET rest == LStripSet(Slice(s, Len(_PLATFORM_NAMES[k]) + 1, Len(s)), Whitespace)
           IN  rest # "" /\ CharAt(rest, 1) \in Separators

\* C8: after normalisation the title no longer ends with '<dash or pipe>
\* <brand>' nor begins with '<brand> <dash or pipe>' for any platform name, and
\* has no leading or trailing separator or whitespace.
C8_NoBrandSegmentLeft ==
    (pc = "titled" /\ result.title # None) =>
        /\ ~EndsWithBrandSegment(result.title)
        /\ ~StartsWithBrandSegment(result.title)
        /\ CharAt(result.title, 1) \notin Separators \cup Whitespace
        /\ CharAt(result.title, Len(result.title)) \notin Separators \cup Whitespace

----------------------------------------------------------------------------
(* The extraction entry points applied to exported pages *)

LongAnswer == "Merge sort splits the list, sorts the halves and merges them."

\* the markup of pages given to extract_response
PhraseFragments ==
    {JustText("merge sort?"),
     Empty(Plain("div", Root, <<>>)),
     Holding(Plain("aside", Root, <<>>), "Older chat: Merge Sort"),
     Holding(Plain("p", Root, <<>>), "Explain merge sort"),
     Holding(Plain("div", Root, <<>>), LongAnswer),
     Holding(Plain("div", Root, <<>>), "Sure."),
     Holding(Plain("button", Root, <<>>), "Copy")}

\* the markup of pages given to extract_full_page
PageFragments ==
    {Holding(Plain("title", Root, <<>>), "Google Gemini"),
     Holding(Plain("title", Root, <<>>), "Merge Sort Explanation - ChatGPT"),
     Empty(Plain("aside", Root, <<>>)),
     Holding(Plain("div", Root, <<"active">>), "Building a Stress Tester"),
     Holding(Plain("h1", Root, <<>>), "Chats"),
     Holding(Plain("main", Root, <<>>), "Content"),
     Holding(Plain("div", Root, <<"toolbar">>), "Copy")}

SearchPhrases == {"Merge Sort"}

Files == {"missing", "undecodable", "locked", "readable"}

\* one call of extract_response or extract_full_page on one file
InitExtract ==
    /\ NoExport
    /\ pc = "called"
    /\ \E mode \in {"phrase", "page"}, file \in Files,
          phrase \in SearchPhrases, strip_buttons \in BOOLEAN :
            /\ req = [mode |-> mode, file |-> file,
                      phrase |-> IF mode = "phrase" THEN phrase ELSE "",
                      strip_buttons |-> strip_buttons]
            /\ IF file # "readable" THEN soup = <<>>
               ELSE IF mode = "phrase" THEN Parsed(soup, PhraseFragments)
               ELSE Parsed(soup, PageFragments)
    /\ live = AllNodes(soup)
    /\ result = NoResult
    /\ pass1 = {} /\ raw_title = ""
    /\ el = NoElement /\ lang = NoOutcome

ExtractResponse ==
    /\ pc = "called" /\ req.mode = "phrase"
    /\ LET out == extract_response(req, soup, live)
       IN  result' = out.result /\ live' = out.live
    /\ pc' = "returned"
    /\ UNCHANGED <<el, lang, soup, pass1, req, raw_title>>
    /\ UNCHANGED export_vars

ExtractFullPage ==
    /\ pc = "called" /\ req.mode = "page"
    /\ LET out == extract_full_page(req, soup, live)
       IN  result' = out.result /\ live' = out.live
    /\ pc' = "returned"
    /\ UNCHANGED <<el, lang, soup, pass1, req, raw_title>>
    /\ UNCHANGED export_vars

NextExtract == ExtractResponse \/ ExtractFullPage

SpecExtract == InitExtract /\ [][NextExtract]_vars

----------------------------------------------------------------------------
(* Properties of the extraction entry points *)

RECURSIVE Ancestors(_, _)
\* the elements above node i, the document itself left out
Ancestors(doc, i) ==
    IF doc[i].parent = Root \/ doc[i].parent = NoParent THEN {}
    ELSE {doc[i].parent} \cup Ancestors(doc, doc[i].parent)

\* a sidebar or history element, as the stripper recognises one
IsSidebarElement(n) ==
    \/ n.tag = "aside"
    \/ n.role \in {"navigation", "complementary"}
    \/ ClassMatches(_SIDEBAR_CLASS_RE, n.class)
    \/ n.aria # "" /\ _SIDEBAR_ARIA_RE(n.aria)

\* the text nodes of doc that hold the phrase, whatever the case
PhraseTexts(doc, phrase) ==
    {i \in AllNodes(doc) : IsText(doc, i) /\ Contains(Lower(doc[i].text), Lower(phrase))}

\* the phrase occurs in doc, and only inside sidebar elements
PhraseOnlyInSidebar(doc, phrase) ==
    /\ PhraseTexts(doc, phrase) # {}
    /\ \A i \in PhraseTexts(doc, phrase) :
          \E a \in Ancestors(doc, i) : IsSidebarElement(doc[a])

\* the call has returned from a file that was read
Returned_from(mode) == pc = "returned" /\ req.mode = mode /\ req.file = "readable"

\* C6: when the search phrase occurs only inside a sidebar or history element,
\* extract_response returns the failure "Phrase not found in the document.".
C6_SidebarPhraseNotFound ==
    (Returned_from("phrase") /\ PhraseOnlyInSidebar(soup, req.phrase)) =>
        result = Failure(PhraseNotFound)

\* the failure of the taxonomy the call of req on soup runs into ("" if none)
FailureCondition ==
    LET nodes     == AllNodes(soup)
        user_node == FindPhrase(soup, nodes, req.phrase)
        container == WalkUp(soup, soup[user_node].parent)
        ai_node   == FindAnswer(soup, nodes, container)
    IN  IF req.file = "missing" THEN FileNotFound
        ELSE IF req.file = "undecodable" THEN EncodingError
        ELSE IF req.file # "readable" \/ req.mode # "phrase" THEN ""
        ELSE IF user_node = 0 THEN PhraseNotFound
        ELSE IF container = 0 THEN ContainerAmbiguous
        ELSE IF ai_node = 0 THEN ResponseNotIsolated
        ELSE ""

\* C7: for a missing file, an undecodable file, a phrase that is not found, a
\* phrase without a message container and an answer that cannot be isolated,
\* extract_response and extract_full_page raise nothing and return a result
\* with success = false and the non-empty message of that condition.
C7_FailuresAreReturned ==
    (pc = "returned" /\ FailureCondition # "") =>
        /\ result.raised = ""
        /\ result.success = FALSE
        /\ result.message = FailureCondition
        /\ result.message # ""

\* extract_response has found the question and its container, but no answer
C7_Witness ==
    /\ Returned_from("phrase")
    /\ FailureCondition = ResponseNotIsolated
    /\ result = Failure(ResponseNotIsolated)

\* the text of the page's first <title> is a platform name and nothing else
BrandOnlyTitle(doc) ==
    LET title_tag == Find(doc, AllNodes(doc), LAMBDA n : n.tag = "title")
    IN  /\ title_tag # 0
        /\ \E k \in 1..Len(_PLATFORM_NAMES) :
              SameIgnoringCase(GetText(doc, AllNodes(doc), title_tag, TRUE),
                               _PLATFORM_NAMES[k])

\* the active conversation items: elements of class "selected" or "active"
\* inside an aside, a nav or a role="complementary" region
ActiveItems(doc) ==
    {i \in AllNodes(doc) :
        /\ IsElem(doc, i)
        /\ \E k \in 1..Len(doc[i].class) : doc[i].class[k] \in {"selected", "active"}
        /\ \E a \in Ancestors(doc, i) :
              doc[a].tag \in {"aside", "nav"} \/ doc[a].role = "complementary"}

\* the turns marked as the user's
UserMessages(doc) ==
    {i \in AllNodes(doc) : IsElem(doc, i) /\ doc[i].author \in UserAuthorMarks}

\* C9: a page whose title is only a platform name and that has no active
\* sidebar item and no user message yields no title (None).
C9_BrandOnlyTitleIsAbsent ==
    (/\ Returned_from("page")
     /\ BrandOnlyTitle(soup)
     /\ ActiveItems(soup) = {}
     /\ UserMessages(soup) = {}) =>
        result.title = None

\* C10: when the page title is only a platform name, the chat title is the
\* trimmed text of the active conversation item of the sidebar.
C10_BrandOnlyTitleTakesActiveItem ==
    (/\ Returned_from("page")
     /\ BrandOnlyTitle(soup)
     /\ ActiveItems(soup) # {}) =>
        result.title = GetText(soup, AllNodes(soup), Least(ActiveItems(soup)), TRUE)

----------------------------------------------------------------------------
(* Frontmatter tags: _auto_detect_tags *)

\* the three backquotes that open a fenced block; a string of this notation
\* cannot hold a backquote, so the character "~" stands for it throughout
Fence == "~~~"

\* the fence markers of rendered Markdown and the tag each one adds
_CODE_BLOCK_TAG_MAP ==
    << <<Fence \o "python", "python">>, <<Fence \o "py", "python">>,
       <<Fence \o "cpp", "cpp">>, <<Fence \o "c++", "cpp">>,
       <<Fence \o "javascript", "javascript">>, <<Fence \o "js", "javascript">>,
       <<Fence \o "typescript", "typescript">>, <<Fence \o "ts", "typescript">>,
       <<Fence \o "java", "java">>,
       <<Fence \o "rust", "rust">>, <<Fence \o "rs", "rust">>,
       <<Fence \o "go", "go">>,
       <<Fence \o "ruby", "ruby">>, <<Fence \o "rb", "ruby">>,
       <<Fence \o "sql", "sql">>,
       <<Fence \o "bash", "bash">>, <<Fence \o "sh", "bash">>,
       <<Fence \o "html", "html">>,
       <<Fence \o "css", "css">>,
       <<Fence \o "csharp", "csharp">>, <<Fence \o "c#", "csharp">>,
       <<Fence \o "kotlin", "kotlin">>, <<Fence \o "kt", "kotlin">>,
       <<Fence \o "swift", "swift">>,
       <<Fence \o "r", "r">>,
       <<Fence \o "php", "php">>,
       <<Fence \o "dart", "dart">> >>

\* the code point of a character of a tag ("-" sorts before every letter)
Ord(c) ==
    IF c = "-" THEN 45
    ELSE 96 + (CHOOSE k \in 1..26 : LowerLetters[k] = c)

\* str.__lt__: the first differing character decides, else the shorter string
RECURSIVE StrLess(_, _)
StrLess(a, b) ==
    IF b = "" THEN FALSE
    ELSE IF a = "" THEN TRUE
    ELSE IF CharAt(a, 1) = CharAt(b, 1)
         THEN StrLess(Slice(a, 2, Len(a)), Slice(b, 2, Len(b)))
         ELSE Ord(CharAt(a, 1)) < Ord(CharAt(b, 1))

\* sorted(): the elements of a set of strings in ascending order
RECURSIVE Sorted(_)
Sorted(S) ==
    IF S = {} THEN <<>>
    ELSE LET least == CHOOSE x \in S : \A y \in S \ {x} : StrLess(x, y)
         IN  <<least>> \o Sorted(S \ {least})

\* the tags added by the fence markers found in the lowered text
MarkerTags(lower) ==
    {_CODE_BLOCK_TAG_MAP[k][2] :
        k \in {j \in 1..Len(_CODE_BLOCK_TAG_MAP) : Contains(lower, _CODE_BLOCK_TAG_MAP[j][1])}}

\* the tags added by the syntax heuristics, given the tags found so far
\* (or binds looser than and: fmt.println alone is enough for "go")
HeuristicTags(lower, found) ==
    (IF Contains(lower, "def ") /\ Contains(lower, ":") THEN {"python"} ELSE {})
    \cup (IF Contains(lower, "#include") \/ Contains(lower, "std::") THEN {"cpp"} ELSE {})
    \cup (IF Contains(lower, "console.log") THEN {"javascript"} ELSE {})
    \cup (IF \/ Contains(lower, "fmt.println")
             \/ (Contains(lower, "func ") /\ "go" \notin found)
          THEN {"go"} ELSE {})
    \cup (IF Contains(lower, "fn ") /\ Contains(lower, "let mut") THEN {"rust"} ELSE {})
    \cup (IF Contains(lower, "public static void main") THEN {"java"} ELSE {})

\* the set of tags collected before sorting
TagSet(text) ==
    LET lower  == Lower(text)
        marked == {"ai-chat"} \cup MarkerTags(lower)
    IN  marked \cup HeuristicTags(lower, marked)

RECURSIVE Reversed(_)
Reversed(s) == IF s = <<>> THEN <<>> ELSE Append(Reversed(Tail(s)), Head(s))

\* a variant that returns the tags without putting them in ascending order
_auto_detect_tags_unsorted(text) == Reversed(Sorted(TagSet(text)))

_auto_detect_tags(text) == Sorted(TagSet(text))

\* how many pieces of rendered Markdown a text is made of
MaxSnippets == 2

\* pieces of rendered Markdown: fences, lines of code, prose
Snippets ==
    { Fence \o "Python\n", Fence \o "js\n", Fence \o "rust\n", Fence \o "C++\n", Fence \o "javascript\n",
      "def f(x):\n", "#include <map>\n", "console.log(x)\n", "func main() {\n",
      "fmt.Println(x)\n", "fn f() { let mut x = 1; }\n",
      "public static void main\n", "Plain words.\n" }

RECURSIVE Joined(_)
Joined(parts) == IF parts = <<>> THEN "" ELSE Head(parts) \o Joined(Tail(parts))

Contents == {Joined(parts) : parts \in SeqsUpTo(Snippets, MaxSnippets)}

InitTags ==
    /\ pc = "tags"
    /\ NoDom
    /\ content \in Contents
    /\ detected = <<>> /\ note = Absent /\ calls = <<>>
    /\ question = NoQuestion /\ smart_title = NoOutcome /\ folder = NoFiles

\* one call of _auto_detect_tags on a rendered text
AutoDetectTags ==
    /\ pc = "tags"
    /\ detected' = _auto_detect_tags(content)
    /\ pc' = "tagged"
    /\ UNCHANGED <<dom_vars, content, note, calls, question, smart_title, folder>>

NextTags == AutoDetectTags

SpecTags == InitTags /\ [][NextTags]_vars

\* C11: for any input text the returned tag sequence contains the base tag
\* "ai-chat", contains no value twice and is in ascending order.
C11_TagsSortedUnique ==
    pc = "tagged" =>
        /\ \E i \in 1..Len(detected) : detected[i] = "ai-chat"
        /\ \A i, j \in 1..Len(detected) : i # j => detected[i] # detected[j]
        /\ \A i \in 1..(Len(detected) - 1) : StrLess(detected[i], detected[i + 1])

\* a text on which several markers and heuristics hit, two of them for the
\* same tag
C11_Witness ==
    /\ pc = "tagged"
    /\ Contains(Lower(content), Fence \o "javascript")
    /\ Contains(Lower(content), "console.log")
    /\ detected = <<"ai-chat", "java", "javascript">>

----------------------------------------------------------------------------
(* The proximity stage on preceding paragraphs that name Java or JavaScript *)

RECURSIVE Pad(_)
\* n characters of filler that belong to no label
Pad(n) ==
    IF n = 0 THEN ""
    ELSE IF n = 1 THEN "."
    ELSE Pad(n \div 2) \o Pad(n - (n \div 2))

\* filler before the mention: none, or enough to make the text longer than
\* the 120 characters past which only the tail is searched
PadsBefore == {0, 112}

\* filler after the mention: none, or so much that the kept tail of 60
\* characters begins inside the mention, or just before it
PadsAfter == {0, 54, 58}

Mentions == {"JavaScript", "Java", "script Java", "Python"}

\* the texts of a paragraph that precedes a code block
PrecedingTexts ==
    {Pad(a) \o m \o Pad(b) : a \in PadsBefore, m \in Mentions, b \in PadsAfter}

\* <p>first</p><p>second</p><pre><code>x</code></pre>
PrecededCode(first, second) ==
    [doc  |-> << Plain("p", Root, <<>>), Text(1, first),
                 Plain("p", Root, <<>>), Text(3, second),
                 Plain("pre", Root, <<>>), Plain("code", 5, <<>>), Text(6, "x") >>,
     node |-> 6]

InitLabel ==
    /\ NoExport
    /\ pc = "preceded"
    /\ \E first \in PrecedingTexts, second \in PrecedingTexts :
          el = PrecededCode(first, second)
    /\ lang = NoOutcome
    /\ soup = <<>> /\ live = {} /\ pass1 = {}
    /\ req = NoRequest /\ result = NoResult /\ raw_title = ""

\* one call of get_code_language on a code block that follows two paragraphs
ClassifyPreceded ==
    /\ pc = "preceded"
    /\ lang' = get_code_language(el.doc, AllNodes(el.doc), el.node)
    /\ pc' = "labelled"
    /\ UNCHANGED <<el, soup, live, pass1, req, result, raw_title>>
    /\ UNCHANGED export_vars

NextLabel == ClassifyPreceded

SpecLabel == InitLabel /\ [][NextLabel]_vars

\* the elements the proximity stage reads, nearest first
Preceding == FindAllPrevious(el.doc, AllNodes(el.doc), el.doc[el.node].parent,
                             ProximityTags, search_limit)

\* prev.get_text(strip=True).lower(), before it is cut
LoweredText(j) == Lower(GetText(el.doc, AllNodes(el.doc), j, TRUE))

\* the text mentions "javascript" and has no "java" outside of it
OnlyJavascript(text) ==
    /\ Contains(text, "javascript")
    /\ \A i \in 1..Len(text) :
          Slice(text, i, i + 3) = "java" => Slice(text, i, i + 9) = "javascript"

\* C12: a preceding text that mentions "javascript" and has no other "java"
\* is never labelled "java", and when every text read is such the proximity
\* stage does not return "java"; a "java" hit is rejected whenever the
\* (possibly truncated) text also contains "script".
C12_JavascriptIsNotJava ==
    pc = "labelled" =>
        /\ \A k \in 1..Len(Preceding) :
              LET text == ProximityText(el.doc, AllNodes(el.doc), Preceding[k])
              IN  /\ OnlyJavascript(LoweredText(Preceding[k])) => LabelLookup(text) # "java"
                  /\ Contains(text, "script") => LabelLookup(text) # "java"
        /\ (\A k \in 1..Len(Preceding) : OnlyJavascript(LoweredText(Preceding[k])))
              => /\ ProximityStage(el.doc, AllNodes(el.doc), el.node) # "java"
                 /\ lang # Returned("java")

\* a long paragraph whose kept tail still holds "javascript" whole, and one
\* where "java" and "script" stand apart
C12_Witness ==
    /\ pc = "labelled"
    /\ Len(Preceding) = 2
    /\ Len(LoweredText(Preceding[1])) > TruncateOver
    /\ Contains(ProximityText(el.doc, AllNodes(el.doc), Preceding[1]), "javascript")
    /\ OnlyJavascript(LoweredText(Preceding[1]))
    /\ LoweredText(Preceding[2]) = "script java"
    /\ lang = Returned("javascript")

----------------------------------------------------------------------------
(* Saving: generate_frontmatter and save_to_file *)

RECURSIVE JoinTags(_)
\* ", ".join(tags)
JoinTags(tag_list) ==
    IF tag_list = <<>> THEN ""
    ELSE IF Len(tag_list) = 1 THEN tag_list[1]
    ELSE tag_list[1] \o ", " \o JoinTags(Tail(tag_list))

\* the YAML block; date_str is today's date in the configured format
generate_frontmatter(title_for_header, body, date_str) ==
    "---\n"
    \o "title: \"" \o title_for_header \o "\"\n"
    \o "date: " \o date_str \o "\n"
    \o "tags: [" \o JoinTags(_auto_detect_tags(body)) \o "]\n"
    \o "source: \"Local File\"\n"
    \o "---\n\n"

\* a variant that takes only write mode as a new file
save_to_file_header_on_write_only(existing, body, title_for_header, open_mode, date_str) ==
    LET is_new == open_mode = "w"
        before == IF existing = Absent \/ open_mode = "w" THEN "" ELSE existing
    IN  IF is_new
        THEN before \o generate_frontmatter(title_for_header, body, date_str)
                    \o "# " \o title_for_header \o "\n\n" \o body
        ELSE before \o "\n\n---\n\n# " \o title_for_header \o "\n\n" \o body

\* the text of the destination after the call; existing is its text before
\* (Absent when full_path.exists() is false); open(mode) truncates in write
\* mode, creates the file when missing, and writes at the end in append mode
save_to_file(existing, body, title_for_header, open_mode, date_str) ==
    LET is_new == existing = Absent \/ open_mode = "w"
        before == IF existing = Absent \/ open_mode = "w" THEN "" ELSE existing
    IN  IF is_new
        THEN before \o generate_frontmatter(title_for_header, body, date_str)
                    \o "# " \o title_for_header \o "\n\n" \o body
        ELSE before \o "\n\n---\n\n# " \o title_for_header \o "\n\n" \o body

\* how many calls of save_to_file one destination receives
MaxCalls == 3

SavedTitles == {"Merge Sort", "Binary Heaps"}

\* result.markdown of a successful extraction (never empty)
SavedBodies ==
    {"Plain words.\n", Fence \o "python\ndef f(x):\n    return x\n" \o Fence \o "\n"}

Dates == {"2026-01-31", "2026-02-01"}

\* "a" for a merge target, "w" for a file of its own
OpenModes == {"a", "w"}

InitSave ==
    /\ pc = "saving"
    /\ NoDom
    /\ content = "" /\ detected = <<>> /\ note = Absent /\ calls = <<>>
    /\ question = NoQuestion /\ smart_title = NoOutcome /\ folder = NoFiles

\* one call of save_to_file on the destination
SaveToFile ==
    /\ pc = "saving"
    /\ Len(calls) < MaxCalls
    /\ \E body \in SavedBodies, heading \in SavedTitles, open_mode \in OpenModes,
          today \in Dates :
            /\ note' = save_to_file(note, body, heading, open_mode, today)
            /\ calls' = Append(calls, [content |-> body, title |-> heading,
                                       mode |-> open_mode, date |-> today])
            /\ content' = body
    /\ UNCHANGED <<pc, dom_vars, detected, question, smart_title, folder>>

NextSave == SaveToFile

SpecSave == InitSave /\ [][NextSave]_vars

\* the number of places where sub occurs in s
Occurrences(s, sub) ==
    Cardinality({i \in 0..(Len(s) - Len(sub)) : Slice(s, i + 1, i + Len(sub)) = sub})

\* what a later call adds: the rule, the heading with its title, the content
Section(call) == "\n\n---\n\n# " \o call.title \o "\n\n" \o call.content

RECURSIVE Sections(_, _)
\* the sections of the calls from position k on, in call order
Sections(log, k) ==
    IF k > Len(log) THEN "" ELSE Section(log[k]) \o Sections(log, k + 1)

AllAppends == \A k \in 1..Len(calls) : calls[k].mode = "a"

\* C13: after a sequence of append-mode calls to a destination that did not
\* exist, the file holds the header of the first call, its heading and
\* content, then one separator, heading and content per later call in call
\* order; the metadata header occurs exactly once.
C13_OneHeaderThenSections ==
    (calls # <<>> /\ AllAppends) =>
        /\ note = generate_frontmatter(calls[1].title, calls[1].content, calls[1].date)
                  \o "# " \o calls[1].title \o "\n\n" \o calls[1].content
                  \o Sections(calls, 2)
        /\ Occurrences(note, "---\ntitle: ") = 1
        /\ Occurrences(note, "\ntags: [") = 1

\* C13 (step form): an append-mode call on an existing destination leaves
\* everything written before in place and adds only its own section.
C13_AppendKeepsEarlierText ==
    [][(note # Absent /\ calls' # calls /\ calls'[Len(calls')].mode = "a")
          => note' = note \o Section(calls'[Len(calls')])]_vars

\* three appends with different titles have been made
C13_Witness ==
    /\ Len(calls) = 3
    /\ AllAppends
    /\ calls[1].title # calls[2].title
    /\ calls[2].content # calls[3].content
    /\ Occurrences(note, "\n\n---\n\n# ") = 2

----------------------------------------------------------------------------
(* Titles of the saved notes: title_generator.py *)

_FILLER_STARTS ==
    << "can you ", "could you ", "please ", "i want to ", "i need to ",
       "i want you to ", "i need you to ", "i would like to ", "help me ",
       "tell me ", "show me ", "write me ", "give me ", "explain to me ",
       "explain me ", "explain ", "what is ", "what are ", "how to ",
       "how do i ", "how can i ", "how do you ", "what does ", "what do ",
       "i am ", "i'm ", "we need to ", "let's ", "let us " >>

_FILLER_ENDS ==
    << " please", " thanks", " thank you", " for me", " asap",
       " in detail", " with examples", " with example",
       " step by step", " briefly" >>

RECURSIVE Having(_, _, _)
\* the members of list from position k on that are n long, in list order
Having(list, n, k) ==
    IF k > Len(list) THEN <<>>
    ELSE (IF Len(list[k]) = n THEN <<list[k]>> ELSE <<>>) \o Having(list, n, k + 1)

RECURSIVE LongestFirst(_, _)
LongestFirst(list, n) ==
    IF n = 0 THEN <<>> ELSE Having(list, n, 1) \o LongestFirst(list, n - 1)

\* sorted(list, key=len, reverse=True): stable, equal lengths keep their order
SortedByLength(list) ==
    LongestFirst(list, CHOOSE n \in {Len(list[k]) : k \in 1..Len(list)} :
                           \A k \in 1..Len(list) : Len(list[k]) <= n)

FillerStartsSorted == SortedByLength(_FILLER_STARTS)

FillerEndsSorted == SortedByLength(_FILLER_ENDS)

RECURSIVE RemoveStarts(_, _)
\* the loop over the filler starts, from position k of the sorted list
RemoveStarts(text, k) ==
    IF k > Len(FillerStartsSorted) THEN text
    ELSE LET filler == FillerStartsSorted[k]
         IN  IF StartsWith(Lower(Slice(text, 1, Len(filler))), filler)
             THEN RemoveStarts(Slice(text, Len(filler) + 1, Len(text)), k + 1)
             ELSE RemoveStarts(text, k + 1)

RECURSIVE RemoveEnds(_, _)
\* the loop over the filler ends, from position k of the sorted list
RemoveEnds(text, k) ==
    IF k > Len(FillerEndsSorted) THEN text
    ELSE LET filler == FillerEndsSorted[k]
         IN  IF /\ Len(text) >= Len(filler)
                /\ Lower(Slice(text, Len(text) - Len(filler) + 1, Len(text))) = filler
             THEN RemoveEnds(Slice(text, 1, Len(text) - Len(filler)), k + 1)
             ELSE RemoveEnds(text, k + 1)

\* text[:max_length].rsplit(" ", 1)[0].rstrip(" ,.;:-")
TruncateAtWord(text, max_length) ==
    LET head   == Slice(text, 1, max_length)
        spaces == {i \in 1..Len(head) : CharAt(head, i) = " "}
        kept   == IF spaces = {} THEN head
                  ELSE Slice(head, 1, (CHOOSE i \in spaces : \A j \in spaces : j <= i) - 1)
    IN  RStripSet(kept, {" ", ",", ".", ";", ":", "-"})

UpperChar(c) ==
    IF c \in LowerSet
    THEN UpperLetters[CHOOSE k \in 1..26 : LowerLetters[k] = c]
    ELSE c

\* str.capitalize()
Capitalize(w) == UpperChar(CharAt(w, 1)) \o Lower(Slice(w, 2, Len(w)))

RECURSIVE Words(_)
\* str.split(): the runs of characters between whitespace
Words(s) ==
    LET from == SkipWhileSpace(s, 1)
        gaps == {i \in from..Len(s) : IsSpace(CharAt(s, i))}
        to   == IF gaps = {} THEN Len(s) + 1 ELSE Least(gaps)
    IN  IF from > Len(s) THEN <<>>
        ELSE <<Slice(s, from, to - 1)>> \o Words(Slice(s, to, Len(s)))

SmallWords ==
    {"a", "an", "the", "and", "but", "or", "for", "nor", "on",
     "at", "to", "by", "in", "of", "is", "it", "vs", "with"}

RECURSIVE TitleCased(_, _)
\* the words from position i on, cased and joined with single spaces
TitleCased(words, i) ==
    IF i > Len(words) THEN ""
    ELSE (IF i = 1 THEN "" ELSE " ")
         \o (IF i = 1 \/ Lower(words[i]) \notin SmallWords
             THEN Capitalize(words[i]) ELSE Lower(words[i]))
         \o TitleCased(words, i + 1)

_title_case(text) == TitleCased(Words(text), 1)

generate_title_heuristic(asked, max_length) ==
    LET stripped  == Strip(asked)
        unfilled  == RemoveEnds(RemoveStarts(stripped, 1), 1)
        bare      == StripSet(unfilled, {" ", "?", ".", "!", ",", ";", ":"})
        truncated == IF Len(bare) > max_length
                     THEN TruncateAtWord(bare, max_length) ELSE bare
        cased     == _title_case(truncated)
    IN  IF cased # "" THEN cased ELSE Slice(asked, 1, max_length)

\* what the user types as a search phrase
Questions ==
    { "Can you please explain merge sort step by step?",
      "  how do I reverse a linked list in C please  ",
      "What is the difference between a process and a thread in an operating system",
      "Explain",
      "please",
      "???",
      "I want to learn RUST and go ASAP!",
      "tell me the time, thanks",
      "Could you write me a very long story about dragons, knights - and castles in detail",
      "i'm   lost  with   the borrow checker" }

\* subclasses of Exception that the request and the decoding of its answer
\* raise: a timed-out read, a transport error, an HTTP error status, a body
\* that is not JSON, a JSON object without the expected key, an empty list
ExceptionSubclasses ==
    {"TimeoutError", "URLError", "HTTPError", "JSONDecodeError", "KeyError", "IndexError"}

\* raised from outside the request (Ctrl-C): a BaseException only
Interrupts == {"KeyboardInterrupt"}

\* what the network does with the request: an exception, or an answer whose
\* message content is the given text
NetworkOutcomes ==
    {[raises |-> e, content |-> ""] : e \in ExceptionSubclasses \cup Interrupts}
    \cup {[raises |-> "", content |-> c] :
            c \in {"", "  \"\"  ", "Sorting Algorithms", "\"Merge Sort Basics\"\n"}}

\* a variant whose handler names only URLError, HTTPError and KeyError
generate_title_ai_named_only(asked, network) ==
    IF network.raises # ""
    THEN IF network.raises \in {"URLError", "HTTPError", "KeyError"}
         THEN Returned(None) ELSE Raised(network.raises)
    ELSE Returned(StripSet(Strip(network.content), {"\"", "'"}))

\* except (URLError, HTTPError, KeyError, Exception): return None
generate_title_ai(asked, network) ==
    IF network.raises # ""
    THEN IF network.raises \in {"URLError", "HTTPError", "KeyError"} \cup ExceptionSubclasses
         THEN Returned(None) ELSE Raised(network.raises)
    ELSE Returned(StripSet(Strip(network.content), {"\"", "'"}))

\* if api_key: ... if ai_title: return ai_title; else the heuristic
generate_smart_title(asked, api_key, max_length, network) ==
    LET ai_title == IF api_key \notin {None, ""}
                    THEN generate_title_ai(asked, network) ELSE Returned(None)
    IN  IF ai_title.raised # "" THEN ai_title
        ELSE IF ai_title.value \notin {None, ""} THEN ai_title
        ELSE Returned(generate_title_heuristic(asked, max_length))

\* watcher: the title of an extraction under the configuration
_get_smart_title(q) ==
    IF ~q.smart_titles THEN Returned(q.text)
    ELSE generate_smart_title(q.text, IF q.ai_enabled THEN q.api_key ELSE None,
                              q.max_length, q.network)

\* settings.max_filename_length as configured
MaxLengths == {20, 60}

ApiKeys == {"", "sk-test"}

InitSmart ==
    /\ pc = "extracted"
    /\ NoDom
    /\ content \in SavedBodies
    /\ detected = <<>> /\ note = Absent /\ calls = <<>>
    /\ \E asked \in Questions, on \in BOOLEAN, enabled \in BOOLEAN, key \in ApiKeys,
          longest \in MaxLengths, network \in NetworkOutcomes :
            question = [text |-> asked, smart_titles |-> on, ai_enabled |-> enabled,
                        api_key |-> key, max_length |-> longest, network |-> network]
    /\ smart_title = NoOutcome /\ folder = NoFiles

\* process_file, after a successful extraction: the title is generated
GetSmartTitle ==
    /\ pc = "extracted"
    /\ smart_title' = _get_smart_title(question)
    /\ pc' = IF smart_title'.raised = "" THEN "titled" ELSE "aborted"
    /\ UNCHANGED <<dom_vars, content, detected, note, calls, question, folder>>

\* process_file, next statement: the extraction is saved under that title
SaveTitled ==
    /\ pc = "titled"
    /\ \E open_mode \in OpenModes, today \in Dates :
          /\ note' = save_to_file(note, content, smart_title.value, open_mode, today)
          /\ calls' = Append(calls, [content |-> content, title |-> smart_title.value,
                                     mode |-> open_mode, date |-> today])
    /\ pc' = "saved"
    /\ UNCHANGED <<dom_vars, content, detected, question, smart_title, folder>>

NextSmart == GetSmartTitle \/ SaveTitled

SpecSmart == InitSmart /\ [][NextSmart]_vars

\* the request is made: smart titles are on and a key is configured and enabled
NetworkCalled ==
    question.smart_titles /\ question.ai_enabled /\ question.api_key \notin {None, ""}

\* the outcomes named by the claim: timeout, transport error, HTTP error,
\* malformed response, empty title
NetworkFailed ==
    \/ question.network.raises \in ExceptionSubclasses
    \/ /\ question.network.raises = ""
       /\ StripSet(Strip(question.network.content), {"\"", "'"}) = ""

\* C14: whenever the network call times out, fails in transport, answers
\* with an HTTP error, a malformed body or an empty title, the title is the
\* heuristic title of the question, nothing is raised (the export is at the
\* save, never aborted), and the note is saved under that title.
C14_FallsBackToHeuristic ==
    (pc # "extracted" /\ NetworkCalled /\ NetworkFailed) =>
        /\ smart_title = Returned(generate_title_heuristic(question.text, question.max_length))
        /\ pc \in {"titled", "saved"}
        /\ pc = "saved" =>
              EndsWith(note, "# " \o generate_title_heuristic(question.text, question.max_length)
                             \o "\n\n" \o content)

\* a note saved under a heuristic title that differs from the question,
\* after the request timed out
C14_Witness ==
    /\ pc = "saved"
    /\ NetworkCalled
    /\ question.network.raises = "TimeoutError"
    /\ smart_title.value # question.text
    /\ smart_title.value = "Explain Merge Sort"
    /\ Contains(note, "title: \"Explain Merge Sort\"")

----------------------------------------------------------------------------
(* Full-page export of conversations with pasted code *)

\* the markup of a conversation: turns marked by attribute or by class,
\* prose, code blocks and inline code
TurnFragments ==
    {Empty(Elem("div", Root, <<>>, "", "", FALSE, "data-message-author-role=user")),
     Empty(Plain("div", Root, <<"user-message">>)),
     Empty(Elem("div", Root, <<>>, "", "", FALSE, "data-message-author-role=assistant")),
     Holding(Plain("pre", Root, <<>>), "for x in xs: print(x)"),
     Holding(Plain("code", Root, <<>>), "xs"),
     Holding(Plain("p", Root, <<>>), "Why is this slow?")}

InitTurns ==
    /\ NoExport
    /\ pc = "called"
    /\ \E strip_buttons \in BOOLEAN :
          req = [mode |-> "page", file |-> "readable", phrase |-> "",
                 strip_buttons |-> strip_buttons]
    /\ Parsed(soup, TurnFragments)
    /\ live = AllNodes(soup)
    /\ result = NoResult
    /\ pass1 = {} /\ raw_title = ""
    /\ el = NoElement /\ lang = NoOutcome

NextTurns == ExtractFullPage

SpecTurns == InitTurns /\ [][NextTurns]_vars

\* the tree as the simplifier receives it in extract_full_page
BeforeSimplify ==
    _strip_platform_artifacts(soup, BasicCleanup(soup, AllNodes(soup), req.strip_buttons))

\* the code blocks among the nodes before that stand below one of the
\* user-turn containers users
PastedBlocks(before, users) ==
    {i \in before : soup[i].tag = "pre" /\ \E u \in users : i \in Descendants(soup, u)}

\* C15: after a full-page export no code block below a user-turn container
\* is left, every other code block is left with all it holds, and nothing
\* outside the removed blocks has gone.
C15_OnlyPastedBlocksRemoved ==
    Returned_from("page") =>
        LET before == BeforeSimplify
            users  == UserContainers(soup, before)
            pasted == PastedBlocks(before, users)
        IN  /\ \A i \in pasted : i \notin live
            /\ \A i \in before \ pasted :
                  soup[i].tag = "pre" => (Subtree(soup, i) \cap before) \subseteq live
            /\ live = before \ UNION {Subtree(soup, i) : i \in pasted}

\* a page where the user's pasted block has gone and a block outside the
\* user's turn is still there
C15_Witness ==
    /\ Returned_from("page")
    /\ LET before == BeforeSimplify
           users  == UserContainers(soup, before)
           pasted == PastedBlocks(before, users)
       IN  /\ pasted # {}
           /\ \E i \in live : soup[i].tag = "pre" /\ i \notin pasted
           /\ \E u \in users : u \in live

----------------------------------------------------------------------------
(* Answers that hold decorative elements *)

\* how many elements follow the text of an answer
MaxParts == 2

\* what a chat page puts into an answer besides its text
AnswerParts ==
    {Holding(Plain("button", Root, <<>>), "Copy"),
     Empty(Plain("img", Root, <<>>)),
     Holding(Plain("style", Root, <<>>), ".msg { color: red }"),
     Holding(Plain("a", Root, <<"copy-link">>), "Copy"),
     Holding(Plain("div", Root, <<"code-toolbar">>), "Python"),
     Holding(Plain("header", Root, <<>>), "Answer"),
     Holding(Plain("p", Root, <<>>), "Done.")}

\* <div>Explain merge sort</div><div>LongAnswer part ...</div>
AnsweredPage(parts) ==
    LET frags == << Holding(Plain("div", Root, <<>>), "Explain merge sort"),
                    Empty(Plain("div", Root, <<>>)),
                    JustText(LongAnswer) >> \o parts
    IN  DocumentFrom(frags, [i \in 1..Len(frags) |-> IF i <= 2 THEN Root ELSE 2], 1)

\* one call of extract_response or extract_full_page on an answered page
InitAnswer ==
    /\ NoExport
    /\ pc = "called"
    /\ \E mode \in {"phrase", "page"}, strip_buttons \in BOOLEAN :
          req = [mode |-> mode, file |-> "readable",
                 phrase |-> IF mode = "phrase" THEN "Merge Sort" ELSE "",
                 strip_buttons |-> strip_buttons]
    /\ \E parts \in SeqsUpTo(AnswerParts, MaxParts) : soup = AnsweredPage(parts)
    /\ live = AllNodes(soup)
    /\ result = NoResult
    /\ pass1 = {} /\ raw_title = ""
    /\ el = NoElement /\ lang = NoOutcome

NextAnswer == ExtractResponse \/ ExtractFullPage

SpecAnswer == InitAnswer /\ [][NextAnswer]_vars

\* the elements left below the node handed to the renderer
Rendered == {i \in Descendants(soup, result.node) \cap live : IsElem(soup, i)}

DecorativeTags == {"button", "svg", "img", "nav", "footer", "script", "style"}

\* C16: the subtree handed to the renderer by extract_response holds no
\* button, svg, img, nav, footer, script or style element and, with
\* strip_buttons on, no copy link or toolbar; with strip_buttons off the copy
\* links and toolbars are kept.
C16_AnswerHasNoDecoration ==
    (Returned_from("phrase") /\ result.success) =>
        /\ \A i \in Rendered : soup[i].tag \notin DecorativeTags
        /\ req.strip_buttons => \A i \in Rendered : ~IsToolbarOrCopy(soup[i])
        /\ ~req.strip_buttons =>
              \A i \in Descendants(soup, result.node) :
                  (IsToolbarOrCopy(soup[i]) /\ soup[i].parent = result.node) => i \in live

----------------------------------------------------------------------------
(* Phrase mode: which element is taken as the answer *)

\* the element that holds the matched phrase, walked up to a container
\* (0 when there is no match or no container)
QuestionContainer ==
    LET user_node == FindPhrase(soup, AllNodes(soup), req.phrase)
    IN  IF user_node = 0 THEN 0 ELSE WalkUp(soup, soup[user_node].parent)

\* the divs that start after the container in document order and whose
\* trimmed text is longer than 20 characters
LongDivsAfterContainer ==
    {j \in AllNodes(soup) :
        /\ j > QuestionContainer
        /\ IsElem(soup, j) /\ soup[j].tag = "div"
        /\ Len(Strip(GetText(soup, AllNodes(soup), j, FALSE))) > MinAnswerLength}

\* C17: once the question container is found, the answer is the first div
\* after it in document order whose trimmed text is longer than 20
\* characters; without such a div the call fails with ResponseNotIsolated.
C17_FirstLongDivIsTheAnswer ==
    (Returned_from("phrase") /\ QuestionContainer # 0) =>
        IF LongDivsAfterContainer = {}
        THEN result = Failure(ResponseNotIsolated)
        ELSE result.success /\ result.node = Least(LongDivsAfterContainer)

\* C18: the element returned as the answer is never below the container of
\* the question.
C18_AnswerOutsideQuestionContainer ==
    (Returned_from("phrase") /\ result.success) =>
        result.node \notin Descendants(soup, QuestionContainer)

----------------------------------------------------------------------------
(* The two entry points on the same page and configuration *)

\* what extract_response does with the page of the call
AsPhrase ==
    extract_response([req EXCEPT !.mode = "phrase", !.phrase = "Merge Sort"],
                     soup, AllNodes(soup))

\* what extract_full_page does with the page of the call
AsPage ==
    extract_full_page([req EXCEPT !.mode = "page", !.phrase = ""], soup, AllNodes(soup))

\* C19: an element of the answer is removed by extract_full_page if and only
\* if extract_response removes it under the same strip_buttons setting.
C19_SameStrippingInBothModes ==
    (pc = "returned" /\ req.file = "readable" /\ AsPhrase.result.success) =>
        /\ live = (IF req.mode = "phrase" THEN AsPhrase.live ELSE AsPage.live)
        /\ \A i \in Descendants(soup, AsPhrase.result.node) :
              IsElem(soup, i) => (i \in AsPage.live <=> i \in AsPhrase.live)

----------------------------------------------------------------------------
(* Full-page export: which region is rendered *)

\* the landmarks of a page, and a header that the basic cleanup removes
RegionFragments ==
    {Empty(Plain("main", Root, <<>>)),
     Empty(Elem("div", Root, <<>>, "main", "", FALSE, "")),
     Empty(Elem("section", Root, <<>>, "main", "", FALSE, "")),
     Empty(Plain("article", Root, <<>>)),
     Empty(Plain("body", Root, <<>>)),
     Empty(Plain("header", Root, <<>>)),
     Holding(Plain("p", Root, <<>>), "Content")}

InitRegion ==
    /\ NoExport
    /\ pc = "called"
    /\ \E strip_buttons \in BOOLEAN :
          req = [mode |-> "page", file |-> "readable", phrase |-> "",
                 strip_buttons |-> strip_buttons]
    /\ Parsed(soup, RegionFragments)
    /\ live = AllNodes(soup)
    /\ result = NoResult
    /\ pass1 = {} /\ raw_title = ""
    /\ el = NoElement /\ lang = NoOutcome

NextRegion == ExtractFullPage

SpecRegion == InitRegion /\ [][NextRegion]_vars

\* the first element left after cleanup that satisfies the test, in document
\* order (0 if there is none)
FirstLeft(Test(_)) ==
    LET left == {i \in live : IsElem(soup, i) /\ Test(soup[i])}
    IN  IF left = {} THEN 0 ELSE Least(left)

\* C20: the region rendered is the first main element, else the first
\* element with role="main" whatever its tag, else the first article, else
\* the body, else the whole document.
C20_RegionPriority ==
    Returned_from("page") =>
        result.node =
            (IF FirstLeft(LAMBDA n : n.tag = "main") # 0
                THEN FirstLeft(LAMBDA n : n.tag = "main")
             ELSE IF FirstLeft(LAMBDA n : n.role = "main") # 0
                THEN FirstLeft(LAMBDA n : n.role = "main")
             ELSE IF FirstLeft(LAMBDA n : n.tag = "article") # 0
                THEN FirstLeft(LAMBDA n : n.tag = "article")
             ELSE IF FirstLeft(LAMBDA n : n.tag = "body") # 0
                THEN FirstLeft(LAMBDA n : n.tag = "body")
             ELSE Root)

----------------------------------------------------------------------------
(* The user-message simplifier applied twice *)

\* turns marked by attribute, by class and by both, an assistant turn, a code
\* block and prose
SimplifyFragments ==
    {Empty(Elem("div", Root, <<"user-message">>, "", "", FALSE, "data-role=user")),
     Empty(Elem("div", Root, <<>>, "", "", FALSE, "data-turn-role=human")),
     Empty(Plain("div", Root, <<"human_turn">>)),
     Empty(Elem("div", Root, <<>>, "", "", FALSE, "data-message-author-role=assistant")),
     Empty(Plain("pre", Root, <<>>)),
     Holding(Plain("pre", Root, <<>>), "for x in xs: print(x)"),
     Holding(Plain("p", Root, <<>>), "Why is this slow?")}

InitSimplify ==
    /\ NoExport
    /\ pc = "parsed"
    /\ Parsed(soup, SimplifyFragments)
    /\ live = AllNodes(soup)
    /\ pass1 = {}
    /\ el = NoElement /\ lang = NoOutcome
    /\ req = NoRequest /\ result = NoResult /\ raw_title = ""

\* the first application
SimplifyUserMessages ==
    /\ pc = "parsed"
    /\ live' = _simplify_user_messages(soup, live)
    /\ pass1' = live'
    /\ pc' = "simplified"
    /\ UNCHANGED <<el, lang, soup, req, result, raw_title>>
    /\ UNCHANGED export_vars

\* a second application, to the tree the first one left
SimplifyUserMessagesAgain ==
    /\ pc = "simplified"
    /\ live' = _simplify_user_messages(soup, live)
    /\ pc' = "simplified_twice"
    /\ UNCHANGED <<el, lang, soup, pass1, req, result, raw_title>>
    /\ UNCHANGED export_vars

NextSimplify == SimplifyUserMessages \/ SimplifyUserMessagesAgain

SpecSimplify == InitSimplify /\ [][NextSimplify]_vars

\* the element is marked as a user turn, by attribute or by class
IsUserTurn(n) ==
    \/ n.author \in UserAuthorMarks
    \/ \E k \in 1..Len(n.class) : _USER_MSG_CLASS_RE(n.class[k])

\* the code blocks left below a user turn
PreLeftInUserTurns ==
    {i \in live :
        /\ soup[i].tag = "pre"
        /\ \E u \in live : IsElem(soup, u) /\ IsUserTurn(soup[u]) /\ i \in Descendants(soup, u)}

\* C21: after the simplifier no user turn, whichever rule marks it, holds a
\* code block, and a second application removes nothing.
C21_NoCodeLeftInUserTurns ==
    /\ pc \in {"simplified", "simplified_twice"} => PreLeftInUserTurns = {}
    /\ pc = "simplified_twice" => live = pass1

\* a turn marked by attribute and by class has lost its code block, and the
\* second application has run
C21_Witness ==
    /\ pc = "simplified_twice"
    /\ live # AllNodes(soup)
    /\ \E u \in live :
          /\ soup[u].author \in UserAuthorMarks
          /\ \E k \in 1..Len(soup[u].class) : _USER_MSG_CLASS_RE(soup[u].class[k])
          /\ \E i \in Descendants(soup, u) : soup[i].tag = "pre" /\ i \notin live

----------------------------------------------------------------------------
(* The branding rule of _strip_platform_artifacts on pages with no other
   artifact *)

\* brand names alone, in prose, in elements the rule may remove and in
\* elements it may not
BrandFragments ==
    {JustText("ChatGPT"),
     JustText("Ask ChatGPT"),
     JustText(" claude\n"),
     Holding(Plain("span", Root, <<>>), "Gemini"),
     Holding(Plain("b", Root, <<>>), "Gemini"),
     Empty(Plain("div", Root, <<>>)),
     Empty(Plain("li", Root, <<>>))}

InitBrand ==
    /\ NoExport
    /\ pc = "parsed"
    /\ Parsed(soup, BrandFragments)
    /\ live = AllNodes(soup)
    /\ pass1 = {}
    /\ el = NoElement /\ lang = NoOutcome
    /\ req = NoRequest /\ result = NoResult /\ raw_title = ""

NextBrand == StripArtifacts

SpecBrand == InitBrand /\ [][NextBrand]_vars

\* the elements taken out of the page as a whole: removed, with the parent kept
RemovedElements ==
    {i \in AllNodes(soup) \ live :
        /\ IsElem(soup, i)
        /\ soup[i].parent = Root \/ soup[i].parent \in live}

\* text node t, directly below element i, is just the name
NamedBy(i, t, name) ==
    /\ IsText(soup, t)
    /\ soup[t].parent = i
    /\ IsJustName(soup[t].text, name)

\* the text of element i on the page given to the stripper
PageText(i) == GetText(soup, AllNodes(soup), i, TRUE)

\* C22: the branding rule removes an element only when one of its own text
\* nodes is just a brand name, the element is h1-h6, span, div, a, p or label,
\* and the element's full text is exactly that name; an element whose text
\* holds a brand name together with other text is never removed.
C22_OnlyBrandOnlyElementsRemoved ==
    pc = "stripped" =>
        \A i \in RemovedElements :
            /\ soup[i].tag \in BrandParentTags
            /\ \E k \in 1..Len(_PLATFORM_NAMES) :
                  /\ \E t \in AllNodes(soup) : NamedBy(i, t, _PLATFORM_NAMES[k])
                  /\ Lower(PageText(i)) = Lower(_PLATFORM_NAMES[k])

----------------------------------------------------------------------------
(* watcher.process_file in individual mode: one file per extraction *)

RECURSIVE WithoutChars(_, _)
\* re.sub(r'[...]', "", s) for a class of single characters
WithoutChars(s, chars) ==
    IF Len(s) = 0 THEN ""
    ELSE IF Len(s) = 1 THEN (IF s \in chars THEN "" ELSE s)
    ELSE LET half == Len(s) \div 2
         IN  WithoutChars(Slice(s, 1, half), chars)
                 \o WithoutChars(Slice(s, half + 1, Len(s)), chars)

RECURSIVE SpacesToUnderscores(_)
\* Python: s.replace(" ", "_")
SpacesToUnderscores(s) ==
    IF Len(s) = 0 THEN ""
    ELSE IF Len(s) = 1 THEN (IF s = " " THEN "_" ELSE s)
    ELSE LET half == Len(s) \div 2
         IN  SpacesToUnderscores(Slice(s, 1, half))
                 \o SpacesToUnderscores(Slice(s, half + 1, Len(s)))

\* the characters _sanitize_filename deletes
UnsafeChars == {"<", ">", ":", "\"", "/", "\\", "|", "?", "*"}

\* watcher._sanitize_filename(name, max_len)
_sanitize_filename(name, max_len) ==
    LET safe == StripSet(SpacesToUnderscores(WithoutChars(name, UnsafeChars)), {"_"})
    IN  Slice(safe, 1, max_len) \o ".md"

\* how many extractions of one run are saved
MaxSaved == 2

\* the phrases typed at the prompt
Phrases == {"merge sort", "merge sort?", "binary heaps", "quick sort"}

\* result.markdown of extract_response for each phrase on the opened page;
\* "" when the extraction does not succeed
Extracted(phrase) ==
    CASE phrase = "merge sort"   -> "Merge sort splits the list and merges the sorted halves.\n"
      [] phrase = "merge sort?"  -> "It runs in O(n log n) time.\n"
      [] phrase = "binary heaps" -> "A binary heap is a complete tree kept in an array.\n"
      [] OTHER                   -> ""

\* settings.max_filename_length: the default, and a short one
FilenameLengths == {50, 8}

InitIndividual ==
    /\ pc = "prompt"
    /\ NoDom
    /\ content = "" /\ detected = <<>> /\ note = Absent /\ calls = <<>>
    /\ \E on \in BOOLEAN, longest \in FilenameLengths :
          question = [NoQuestion EXCEPT !.smart_titles = on, !.max_length = longest]
    /\ smart_title = NoOutcome
    /\ folder = NoFiles

\* one turn of the loop of process_file with merge_target None: a phrase is
\* typed, extracted, titled and saved to a file named after the title
ProcessPhrase ==
    /\ pc = "prompt"
    /\ Len(calls) < MaxSaved
    /\ \E phrase \in Phrases, today \in Dates :
          LET markdown == Extracted(phrase)
              heading  == _get_smart_title([question EXCEPT !.text = phrase])
              fname    == _sanitize_filename(heading.value, question.max_length)
              existing == IF fname \in DOMAIN folder THEN folder[fname] ELSE Absent
              saved    == save_to_file(existing, markdown, heading.value, "w", today)
          IN  IF markdown = ""
              THEN /\ content' = ""
                   /\ UNCHANGED <<smart_title, folder, calls>>
              ELSE /\ content' = markdown
                   /\ smart_title' = heading
                   /\ folder' = [n \in DOMAIN folder \cup {fname} |->
                                    IF n = fname THEN saved ELSE folder[n]]
                   /\ calls' = Append(calls, [content |-> markdown, title |-> heading.value,
                                              mode |-> "w", date |-> today,
                                              filename |-> fname])
    /\ UNCHANGED <<pc, dom_vars, detected, note, question>>

\* ENTER at the prompt ends the loop
FinishFile ==
    /\ pc = "prompt"
    /\ pc' = "done"
    /\ UNCHANGED <<dom_vars, export_vars>>

NextIndividual == ProcessPhrase \/ FinishFile

SpecIndividual == InitIndividual /\ [][NextIndividual]_vars

\* C23: in individual mode a later extraction never destroys the exported
\* content of an earlier one: the Markdown of every extraction saved so far
\* is still in the file it was saved to.
C23_EarlierExportsKept ==
    \A k \in 1..Len(calls) :
        /\ calls[k].filename \in DOMAIN folder
        /\ Contains(folder[calls[k].filename], calls[k].content)

----------------------------------------------------------------------------
(* The detected_languages field of a successful ExtractionResult *)

\* isinstance(detected, set), for the value _auto_detect_tags returns: sorted()
\* gives a list
IsInstanceOfSet == FALSE

\* extract_response, after post-processing: the tags are detected and
\* "ai-chat" is discarded when the value is a set
ResponseLanguages(markdown_text) ==
    LET found == _auto_detect_tags(markdown_text)
    IN  IF IsInstanceOfSet
        THEN SelectSeq(found, LAMBDA tag : tag # "ai-chat")
        ELSE found

\* extract_full_page, after post-processing: the tags as detected
FullPageLanguages(markdown_text) == _auto_detect_tags(markdown_text)

\* the post-processed Markdown of a successful extraction, in either mode
InitDetected ==
    /\ pc = "rendered"
    /\ el = NoElement /\ lang = NoOutcome
    /\ soup = <<>> /\ live = {} /\ pass1 = {}
    /\ \E entry \in {"phrase", "page"} : req = [NoRequest EXCEPT !.mode = entry]
    /\ result = NoResult /\ raw_title = ""
    /\ content \in Contents \ {""}
    /\ detected = <<>> /\ note = Absent /\ calls = <<>>
    /\ question = NoQuestion /\ smart_title = NoOutcome /\ folder = NoFiles

\* extract_response builds its result
ReturnResponse ==
    /\ pc = "rendered"
    /\ req.mode = "phrase"
    /\ detected' = ResponseLanguages(content)
    /\ result' = [NoResult EXCEPT !.success = TRUE, !.message = "Extraction successful."]
    /\ pc' = "returned"
    /\ UNCHANGED <<el, lang, soup, live, pass1, req, raw_title>>
    /\ UNCHANGED <<content, note, calls, question, smart_title, folder>>

\* extract_full_page builds its result
ReturnFullPage ==
    /\ pc = "rendered"
    /\ req.mode = "page"
    /\ detected' = FullPageLanguages(content)
    /\ result' = [NoResult EXCEPT !.success = TRUE, !.message = "Full-page export successful."]
    /\ pc' = "returned"
    /\ UNCHANGED <<el, lang, soup, live, pass1, req, raw_title>>
    /\ UNCHANGED <<content, note, calls, question, smart_title, folder>>

NextDetected == ReturnResponse \/ ReturnFullPage

SpecDetected == InitDetected /\ [][NextDetected]_vars

\* the languages the tag generator knows
LanguageIdentifiers ==
    {_CODE_BLOCK_TAG_MAP[k][2] : k \in 1..Len(_CODE_BLOCK_TAG_MAP)}

\* C24: detected_languages of a successful result, in either mode, holds only
\* language identifiers, never the base tag "ai-chat", and is empty when the
\* Markdown shows no fence marker and no syntax evidence.
C24_OnlyLanguagesDetected ==
    (pc = "returned" /\ result.success) =>
        /\ \A k \in 1..Len(detected) : detected[k] \in LanguageIdentifiers
        /\ \A k \in 1..Len(detected) : detected[k] # "ai-chat"
        /\ TagSet(content) = {"ai-chat"} => detected = <<>>

----------------------------------------------------------------------------
(* Phrase mode: which occurrence of the phrase decides the container *)

\* the text nodes of the page that contain the phrase, whatever the case
PhraseOccurrences ==
    {t \in AllNodes(soup) :
        /\ IsText(soup, t)
        /\ Contains(Lower(soup[t].text), Lower(req.phrase))}

\* C25: phrase mode fails with ContainerAmbiguous only when no text node that
\* contains the phrase has a div, li, article or section above it: an earlier
\* occurrence outside any such container does not keep a later one inside a
\* container from being used.
C25_AmbiguousOnlyWithoutAnyContainer ==
    (Returned_from("phrase") /\ result = Failure(ContainerAmbiguous)) =>
        \A t \in PhraseOccurrences : WalkUp(soup, soup[t].parent) = 0

----------------------------------------------------------------------------
(* Fence markers and the labels of the fences of a text *)

\* the text from position p to the end of its line
RestOfLine(s, p) ==
    LET ends == {j \in p..Len(s) : CharAt(s, j) = "\n"}
    IN  Slice(s, p, IF ends = {} THEN Len(s) ELSE Least(ends) - 1)

\* the language labels of the fences of a text: what follows each fence on
\* its line
FenceLabels(s) ==
    {RestOfLine(s, i + Len(Fence)) :
        i \in {j \in 1..Len(s) : Slice(s, j, j + Len(Fence) - 1) = Fence}}

\* the label that marker k stands for
MarkerLabel(k) ==
    Slice(_CODE_BLOCK_TAG_MAP[k][1], Len(Fence) + 1, Len(_CODE_BLOCK_TAG_MAP[k][1]))

\* C26: a language tag is added for a fence marker only when the marker is the
\* complete label of some fence of the text: apart from "ai-chat" and the tags
\* the syntax heuristics give, every tag has a marker whose label labels a
\* fence (a javascript fence gives no "java", a rust fence no "r").
C26_MarkerIsWholeLabel ==
    pc = "tagged" =>
        LET lower     == Lower(content)
            labels    == FenceLabels(lower)
            heuristic == HeuristicTags(lower, {"ai-chat"} \cup MarkerTags(lower))
        IN  \A i \in 1..Len(detected) :
                \/ detected[i] = "ai-chat"
                \/ detected[i] \in heuristic
                \/ \E k \in 1..Len(_CODE_BLOCK_TAG_MAP) :
                      /\ _CODE_BLOCK_TAG_MAP[k][2] = detected[i]
                      /\ MarkerLabel(k) \in labels

====
